---- MODULE Spec2Model ----
(***************************************************************************)
(* A model of the serde-xmlrpc value codec: the streaming Value Reader     *)
(* (src/src/de.rs), the Value Writer (src/src/ser.rs), the in-memory Value *)
(* builder (src/src/value/ser.rs, src/src/value/de.rs) and the entry       *)
(* points of src/src/lib.rs.                                               *)
(*                                                                         *)
(* Text is a sequence of one-character strings.  A document is a sequence  *)
(* of XML tokens; the tokenizer (quick_xml) is configured by the entry     *)
(* points with expand_empty_elements(true) and trim_text(true).            *)
(***************************************************************************)
EXTENDS Integers, Sequences, FiniteSets, TLC

VARIABLES
    input,      \* the document handed to an entry point (a sequence of tokens)
    target,     \* the type the caller asked the reader to produce
    value,      \* the Value handed to the writer
    out,        \* the writer's sink (a sequence of tokens)
    result,     \* what the last entry point returned
    pc          \* which entry point runs next

vars == <<input, target, value, out, result, pc>>

(***************************************************************************)
(* A Value (src/src/value/mod.rs) is its variant t and the payload v of    *)
(* the variant.  The same shape serves for what a typed target receives.   *)
(***************************************************************************)
Val(t, v) == [t |-> t, v |-> v]

(***************************************************************************)
(* Bounds of the model.                                                    *)
(***************************************************************************)
\* Most values (a scalar, an array or a struct each count as one) in a
\* generated document or Value tree.
MaxNodes == 3

(***************************************************************************)
(* Text helpers.                                                           *)
(***************************************************************************)
Digits == <<"0", "1", "2", "3", "4", "5", "6", "7", "8", "9">>

IsDigit(c) == \E i \in 1..Len(Digits) : Digits[i] = c

DigitVal(c) == (CHOOSE i \in 1..Len(Digits) : Digits[i] = c) - 1

IsSpace(c) == c \in {" ", "\n", "\t", "\r"}

RECURSIVE TrimStart(_)
TrimStart(s) ==
    IF s # <<>> /\ IsSpace(Head(s)) THEN TrimStart(Tail(s)) ELSE s

RECURSIVE TrimEnd(_)
TrimEnd(s) ==
    IF s # <<>> /\ IsSpace(s[Len(s)]) THEN TrimEnd(SubSeq(s, 1, Len(s) - 1)) ELSE s

\* trim_text(true): a Text event is trimmed at both ends.
Trim(s) == TrimEnd(TrimStart(s))

RECURSIVE Concat(_)
Concat(ss) == IF ss = <<>> THEN <<>> ELSE Head(ss) \o Concat(Tail(ss))

(***************************************************************************)
(* Signed 64-bit integers.  TLC's integers are 32 bits wide, so an i64 is  *)
(* kept as a sign and a magnitude in decimal digits (most significant      *)
(* first, no leading zero, zero is <<0>> and never negative).              *)
(***************************************************************************)
Num(neg, mag) == [neg |-> neg, mag |-> mag]

RECURSIVE StripZeros(_)
StripZeros(ds) ==
    IF Len(ds) > 1 /\ Head(ds) = 0 THEN StripZeros(Tail(ds)) ELSE ds

RECURSIVE LexLE(_, _)
LexLE(a, b) ==
    IF a = <<>> THEN TRUE
    ELSE IF Head(a) # Head(b) THEN Head(a) < Head(b)
    ELSE LexLE(Tail(a), Tail(b))

\* a <= b for magnitudes without leading zeros
MagLE(a, b) == Len(a) < Len(b) \/ (Len(a) = Len(b) /\ LexLE(a, b))

I8Max  == <<1, 2, 7>>
I8Min  == <<1, 2, 8>>
I16Max == <<3, 2, 7, 6, 7>>
I16Min == <<3, 2, 7, 6, 8>>
I32Max == <<2, 1, 4, 7, 4, 8, 3, 6, 4, 7>>
I32Min == <<2, 1, 4, 7, 4, 8, 3, 6, 4, 8>>
I64Max == <<9, 2, 2, 3, 3, 7, 2, 0, 3, 6, 8, 5, 4, 7, 7, 5, 8, 0, 7>>
I64Min == <<9, 2, 2, 3, 3, 7, 2, 0, 3, 6, 8, 5, 4, 7, 7, 5, 8, 0, 8>>

InRange(n, max, min) == IF n.neg THEN MagLE(n.mag, min) ELSE MagLE(n.mag, max)

\* i64 -> i8 / i16 / i32 try_into succeeds
FitsI8(n)  == InRange(n, I8Max, I8Min)
FitsI16(n) == InRange(n, I16Max, I16Min)
FitsI32(n) == InRange(n, I32Max, I32Min)

\* i64::to_string
RECURSIVE DigitsToText(_)
DigitsToText(ds) ==
    IF ds = <<>> THEN <<>> ELSE <<Digits[Head(ds) + 1]>> \o DigitsToText(Tail(ds))

IntToString(n) == (IF n.neg THEN <<"-">> ELSE <<>>) \o DigitsToText(n.mag)

\* str::parse::<i64>: an optional sign, then one or more decimal digits,
\* accumulated left to right with checked arithmetic.
RECURSIVE ParseDigits(_, _, _)
ParseDigits(s, neg, acc) ==
    IF s = <<>> THEN [ok |-> TRUE, num |-> Num(neg /\ acc # <<0>>, acc), why |-> ""]
    ELSE IF ~IsDigit(Head(s)) THEN [ok |-> FALSE, num |-> Num(FALSE, <<0>>), why |-> "InvalidDigit"]
    ELSE LET next == StripZeros(acc \o <<DigitVal(Head(s))>>)
         IN  IF ~MagLE(next, IF neg THEN I64Min ELSE I64Max)
             THEN [ok |-> FALSE, num |-> Num(FALSE, <<0>>),
                   why |-> IF neg THEN "NegOverflow" ELSE "PosOverflow"]
             ELSE ParseDigits(Tail(s), neg, next)

\* a faulty ParseI64: the empty text is zero
ParseI64Default(s) ==
    IF s = <<>> THEN [ok |-> TRUE, num |-> Num(FALSE, <<0>>), why |-> ""]
    ELSE IF Head(s) = "-" THEN ParseDigits(Tail(s), TRUE, <<0>>)
    ELSE ParseDigits(s, FALSE, <<0>>)

ParseI64(s) ==
    IF s = <<>> THEN [ok |-> FALSE, num |-> Num(FALSE, <<0>>), why |-> "Empty"]
    ELSE IF Head(s) \in {"+", "-"} /\ Len(s) = 1
         THEN [ok |-> FALSE, num |-> Num(FALSE, <<0>>), why |-> "InvalidDigit"]
    ELSE IF Head(s) = "-" THEN ParseDigits(Tail(s), TRUE, <<0>>)
    ELSE IF Head(s) = "+" THEN ParseDigits(Tail(s), FALSE, <<0>>)
    ELSE ParseDigits(s, FALSE, <<0>>)

(***************************************************************************)
(* XML escaping (quick_xml): BytesText::new escapes its content when the   *)
(* event is built; BytesText::unescape resolves the predefined entities.   *)
(***************************************************************************)
EscapeChar(c) ==
    CASE c = "<"  -> <<"&", "l", "t", ";">>
      [] c = ">"  -> <<"&", "g", "t", ";">>
      [] c = "&"  -> <<"&", "a", "m", "p", ";">>
      [] c = "'"  -> <<"&", "a", "p", "o", "s", ";">>
      [] c = "\"" -> <<"&", "q", "u", "o", "t", ";">>
      [] OTHER    -> <<c>>

RECURSIVE Escape(_)
Escape(s) == IF s = <<>> THEN <<>> ELSE EscapeChar(Head(s)) \o Escape(Tail(s))

EntityChar(name) ==
    CASE name = <<"l", "t">>           -> "<"
      [] name = <<"g", "t">>           -> ">"
      [] name = <<"a", "m", "p">>      -> "&"
      [] name = <<"a", "p", "o", "s">> -> "'"
      [] name = <<"q", "u", "o", "t">> -> "\""
      [] OTHER                         -> ""

IndexOf(s, c) ==
    IF \E i \in 1..Len(s) : s[i] = c
    THEN CHOOSE i \in 1..Len(s) : s[i] = c /\ \A j \in 1..(i - 1) : s[j] # c
    ELSE 0

\* [ok, text]: fails on an unterminated or unknown entity
RECURSIVE Unescape(_)
Unescape(s) ==
    IF s = <<>> THEN [ok |-> TRUE, text |-> <<>>]
    ELSE IF Head(s) # "&"
         THEN LET r == Unescape(Tail(s))
              IN  [ok |-> r.ok, text |-> IF r.ok THEN <<Head(s)>> \o r.text ELSE <<>>]
    ELSE LET semi == IndexOf(s, ";")
         IN  IF semi = 0 \/ EntityChar(SubSeq(s, 2, semi - 1)) = ""
             THEN [ok |-> FALSE, text |-> <<>>]
             ELSE LET r == Unescape(SubSeq(s, semi + 1, Len(s)))
                  IN  [ok |-> r.ok,
                       text |-> IF r.ok
                                THEN <<EntityChar(SubSeq(s, 2, semi - 1))>> \o r.text
                                ELSE <<>>]

(***************************************************************************)
(* Base64, standard alphabet with padding (BASE64_STANDARD).  Bytes are    *)
(* numbers in 0..255.                                                      *)
(***************************************************************************)
B64 == <<"A", "B", "C", "D", "E", "F", "G", "H", "I", "J", "K", "L", "M",
         "N", "O", "P", "Q", "R", "S", "T", "U", "V", "W", "X", "Y", "Z",
         "a", "b", "c", "d", "e", "f", "g", "h", "i", "j", "k", "l", "m",
         "n", "o", "p", "q", "r", "s", "t", "u", "v", "w", "x", "y", "z",
         "0", "1", "2", "3", "4", "5", "6", "7", "8", "9", "+", "/">>

B64Char(v) == B64[v + 1]

IsB64(c) == \E i \in 1..Len(B64) : B64[i] = c

B64Val(c) == (CHOOSE i \in 1..Len(B64) : B64[i] = c) - 1

RECURSIVE Base64Encode(_)
Base64Encode(bs) ==
    IF bs = <<>> THEN <<>>
    ELSE IF Len(bs) = 1
         THEN <<B64Char(bs[1] \div 4), B64Char((bs[1] % 4) * 16), "=", "=">>
    ELSE IF Len(bs) = 2
         THEN <<B64Char(bs[1] \div 4),
                B64Char((bs[1] % 4) * 16 + bs[2] \div 16),
                B64Char((bs[2] % 16) * 4), "=">>
    ELSE <<B64Char(bs[1] \div 4),
           B64Char((bs[1] % 4) * 16 + bs[2] \div 16),
           B64Char((bs[2] % 16) * 4 + bs[3] \div 64),
           B64Char(bs[3] % 64)>> \o Base64Encode(SubSeq(bs, 4, Len(bs)))

\* [ok, bytes]: the length must be a multiple of four, padding may only end
\* the text and the bits it cuts off must be zero.
RECURSIVE Base64Decode(_)
Base64Decode(s) ==
    LET bad == [ok |-> FALSE, bytes |-> <<>>]
    IN  IF s = <<>> THEN [ok |-> TRUE, bytes |-> <<>>]
        ELSE IF Len(s) < 4 \/ ~IsB64(s[1]) \/ ~IsB64(s[2]) THEN bad
        ELSE LET v1 == B64Val(s[1])
                 v2 == B64Val(s[2])
             IN  IF s[3] = "=" /\ s[4] = "="
                 THEN IF Len(s) = 4 /\ v2 % 16 = 0
                      THEN [ok |-> TRUE, bytes |-> <<v1 * 4 + v2 \div 16>>]
                      ELSE bad
                 ELSE IF ~IsB64(s[3]) THEN bad
                 ELSE LET v3 == B64Val(s[3])
                      IN  IF s[4] = "="
                          THEN IF Len(s) = 4 /\ v3 % 4 = 0
                               THEN [ok |-> TRUE,
                                     bytes |-> <<v1 * 4 + v2 \div 16,
                                                 (v2 % 16) * 16 + v3 \div 4>>]
                               ELSE bad
                          ELSE IF ~IsB64(s[4]) THEN bad
                          ELSE LET r == Base64Decode(SubSeq(s, 5, Len(s)))
                               IN  IF r.ok
                                   THEN [ok |-> TRUE,
                                         bytes |-> <<v1 * 4 + v2 \div 16,
                                                     (v2 % 16) * 16 + v3 \div 4,
                                                     (v3 % 4) * 64 + B64Val(s[4])>>
                                                   \o r.bytes]
                                   ELSE bad

(***************************************************************************)
(* 64-bit floats, as far as the codec touches them: f64::to_string and     *)
(* str::parse::<f64> on plain decimals.  A float is a sign, the digits of  *)
(* its integer part and the digits of its fraction (no trailing zero).     *)
(***************************************************************************)
F64(neg, ip, fp) == [neg |-> neg, ip |-> ip, fp |-> fp]

RECURSIVE StripTrailingZeros(_)
StripTrailingZeros(ds) ==
    IF ds # <<>> /\ ds[Len(ds)] = 0
    THEN StripTrailingZeros(SubSeq(ds, 1, Len(ds) - 1))
    ELSE ds

F64ToString(d) ==
    (IF d.neg THEN <<"-">> ELSE <<>>) \o DigitsToText(d.ip)
        \o (IF d.fp = <<>> THEN <<>> ELSE <<".">> \o DigitsToText(d.fp))

RECURSIVE TextToDigits(_)
TextToDigits(s) ==
    IF s = <<>> THEN <<>> ELSE <<DigitVal(Head(s))>> \o TextToDigits(Tail(s))

AllDigits(s) == \A i \in 1..Len(s) : IsDigit(s[i])

ParseF64(s) ==
    LET bad  == [ok |-> FALSE, num |-> F64(FALSE, <<0>>, <<>>)]
        neg  == s # <<>> /\ Head(s) = "-"
        body == IF s # <<>> /\ Head(s) \in {"+", "-"} THEN Tail(s) ELSE s
        dot  == IndexOf(body, ".")
        ipt  == IF dot = 0 THEN body ELSE SubSeq(body, 1, dot - 1)
        fpt  == IF dot = 0 THEN <<>> ELSE SubSeq(body, dot + 1, Len(body))
    IN  IF ipt \o fpt = <<>> \/ ~AllDigits(ipt) \/ ~AllDigits(fpt) THEN bad
        ELSE [ok |-> TRUE,
              num |-> F64(neg,
                          IF ipt = <<>> THEN <<0>> ELSE StripZeros(TextToDigits(ipt)),
                          StripTrailingZeros(TextToDigits(fpt)))]

(***************************************************************************)
(* iso8601::DateTime, as far as the codec touches it: its to_string.       *)
(***************************************************************************)
Pad2(n) == <<Digits[(n \div 10) + 1], Digits[(n % 10) + 1]>>

DateTimeToString(dt) ==
    Pad2(dt.year \div 100) \o Pad2(dt.year % 100) \o <<"-">> \o Pad2(dt.month)
        \o <<"-">> \o Pad2(dt.day) \o <<"T">> \o Pad2(dt.hour) \o <<":">>
        \o Pad2(dt.minute) \o <<":">> \o Pad2(dt.second)

(***************************************************************************)
(* Tokens of a document and the quick_xml tokenizer as the codec uses it.  *)
(* A token is a start tag, an end tag, an empty-element tag, a text node   *)
(* (its raw, still escaped content), a declaration, a comment, or a piece  *)
(* of malformed markup on which the tokenizer reports an error.            *)
(***************************************************************************)
Tok(k, name, text) == [k |-> k, name |-> name, text |-> text]

Start(name) == Tok("Start", name, <<>>)
End(name)   == Tok("End", name, <<>>)
Empty(name) == Tok("Empty", name, <<>>)
Text(s)     == Tok("Text", "", s)
Decl        == Tok("Decl", "", <<>>)
Comment     == Tok("Comment", "", <<>>)
CData       == Tok("CData", "", <<>>)
Malformed   == Tok("Malformed", "", <<>>)
Eof         == Tok("Eof", "", <<>>)

Element(name, body) == <<Start(name)>> \o body \o <<End(name)>>

\* expand_empty_elements(true): <a/> is reported as <a> followed by </a>.
RECURSIVE Expand(_)
Expand(doc) ==
    IF doc = <<>> THEN <<>>
    ELSE (IF Head(doc).k = "Empty"
          THEN <<Start(Head(doc).name), End(Head(doc).name)>>
          ELSE <<Head(doc)>>) \o Expand(Tail(doc))

\* Reader::read_event with trim_text(true): [ev, pos].  A text node is trimmed,
\* and one that is empty after trimming is not reported at all.  Malformed
\* markup is reported as an error event, the end of the input as Eof.
RECURSIVE read_event(_, _)
read_event(doc, p) ==
    IF p >= Len(doc) THEN [ev |-> Eof, pos |-> Len(doc)]
    ELSE LET t == doc[p + 1]
         IN  IF t.k = "Text"
             THEN IF Trim(t.text) = <<>>
                  THEN read_event(doc, p + 1)
                  ELSE [ev |-> Text(Trim(t.text)), pos |-> p + 1]
             ELSE IF t.k = "Malformed"
                  THEN [ev |-> Tok("Err", "", <<>>), pos |-> p + 1]
                  ELSE [ev |-> t, pos |-> p + 1]

\* Reader::read_to_end(end): skips to the end tag that closes the element the
\* cursor is in, counting nested elements of the same name.  [ok, pos]
RECURSIVE ReadToEndFrom(_, _, _, _)

ReadToEndStep(doc, end, depth, e) ==
    IF e.ev.k \in {"Eof", "Err"} THEN [ok |-> FALSE, pos |-> e.pos]
    ELSE IF e.ev.k = "End" /\ e.ev.name = end /\ depth = 0
         THEN [ok |-> TRUE, pos |-> e.pos]
    ELSE ReadToEndFrom(doc, e.pos, end,
                       IF e.ev.name # end THEN depth
                       ELSE IF e.ev.k = "Start" THEN depth + 1
                       ELSE IF e.ev.k = "End" THEN depth - 1
                       ELSE depth)

ReadToEndFrom(doc, p, end, depth) == ReadToEndStep(doc, end, depth, read_event(doc, p))

read_to_end(doc, p, end) == ReadToEndFrom(doc, p, end, 0)

\* The source text of a token, as Reader::read_text returns it: text nodes
\* raw (neither trimmed nor unescaped), markup as one opaque piece.
RawOf(t) ==
    CASE t.k = "Text"    -> t.text
      [] t.k = "Start"   -> <<"<" \o t.name \o ">">>
      [] t.k = "End"     -> <<"</" \o t.name \o ">">>
      [] t.k = "Decl"    -> <<"<?xml?>">>
      [] t.k = "Comment" -> <<"<!---->">>
      [] OTHER           -> <<"<?>">>

RECURSIVE RawSpan(_, _, _)
RawSpan(doc, from, to) ==
    IF from > to THEN <<>> ELSE RawOf(doc[from]) \o RawSpan(doc, from + 1, to)

\* Reader::read_text(end): the raw source between the cursor and the matching
\* end tag, which is consumed.  [ok, text, pos]
ReadTextSpan(doc, p, r) ==
    [ok |-> r.ok, pos |-> r.pos,
     text |-> IF r.ok THEN RawSpan(doc, p + 1, r.pos - 1) ELSE <<>>]

read_text(doc, p, end) == ReadTextSpan(doc, p, read_to_end(doc, p, end))

(***************************************************************************)
(* Errors.  One record shape for all of them: the variant, the tag found   *)
(* and the expectation (UnexpectedTag, UnexpectedEvent, UnexpectedEOF),    *)
(* the offending text (BooleanDecodeError, ParseIntError) and, for an      *)
(* error that serde passed on as a message (Error::custom), the variant    *)
(* it was made from.                                                       *)
(***************************************************************************)
Err(kind, found, expected, text) ==
    [cause |-> "", kind |-> kind, found |-> found, expected |-> expected, text |-> text]

NoErr == Err("", "", "", <<>>)

XmlError == Err("XmlError", "", "", <<>>)

ValueTags == "one of int|i4|i8|boolean|string|double|dateTime.iso8601|base64|struct|array|nil"

\* serde::de::Error::custom / serde::ser::Error::custom: the error survives
\* as its message only.
Custom(e) ==
    [e EXCEPT !.kind = "Custom", !.cause = IF e.kind = "Custom" THEN e.cause ELSE e.kind]

InvalidType == Custom(Err("invalid type", "", "", <<>>))
InvalidValue == Custom(Err("invalid value", "", "", <<>>))
InvalidLength == Custom(Err("invalid length", "", "", <<>>))

(***************************************************************************)
(* Values and results.                                                     *)
(***************************************************************************)
Nil == Val("Nil", <<>>)

EmptyMap == [k \in {} |-> Nil]

MapInsert(m, k, v) == [x \in (DOMAIN m) \cup {k} |-> IF x = k THEN v ELSE m[x]]

Ok(val, pos)   == [ok |-> TRUE, val |-> val, err |-> NoErr, pos |-> pos]
Fail(err, pos) == [ok |-> FALSE, val |-> Nil, err |-> err, pos |-> pos]

(***************************************************************************)
(* The types a caller can ask for.                                         *)
(***************************************************************************)
Ty(k, of) == [k |-> k, of |-> of]

TValue == Ty("Value", <<>>)      \* serde_xmlrpc::Value
TTrace == Ty("Trace", <<>>)      \* a visitor that records the calls it receives
TI32   == Ty("I32", <<>>)        \* i32
TBool  == Ty("Bool", <<>>)       \* bool
TOpt(T)    == Ty("Opt", <<T>>)   \* Option<T>
TVec(T)    == Ty("Vec", <<T>>)   \* Vec<T>
TTuple(Ts) == Ty("Tuple", Ts)    \* (T1, ..., Tn)

(***************************************************************************)
(* value::Serializer (src/src/value/ser.rs): builds a Value from the       *)
(* calls of the serde data model.                                          *)
(***************************************************************************)
vs_serialize_bool(v)  == Val("Bool", v)
vs_serialize_i8(v)    == Val("Int", v)
vs_serialize_i16(v)   == Val("Int", v)
vs_serialize_i32(v)   == Val("Int", v)
\* a faulty vs_serialize_i64: the wide variant is never built
vs_serialize_i64_narrow(v) == Val("Int", v)
vs_serialize_i64(v)   == Val("Int64", v)
vs_serialize_f64(v)   == Val("Double", v)
vs_serialize_str(v)   == Val("String", v)
vs_serialize_bytes(v) == Val("Base64", v)
vs_serialize_none     == Nil
vs_serialize_unit     == Nil

\* SerializeVec::end and SerializeMap::serialize_value / end
vs_seq_end(vec) == Val("Array", vec)
\* a faulty vs_map_insert: an entry already present is kept
vs_map_insert_first(map, key, v) == IF key \in DOMAIN map THEN map ELSE MapInsert(map, key, v)
vs_map_insert(map, key, v) == MapInsert(map, key, v)
vs_map_end(map) == Val("Struct", map)

\* Value::as_i32, Value::as_i64: [some, v]
as_i32(v) ==
    IF v.t = "Int" THEN [some |-> TRUE, v |-> v.v]
    ELSE [some |-> FALSE, v |-> Num(FALSE, <<0>>)]

as_i64(v) ==
    IF v.t \in {"Int", "Int64"} THEN [some |-> TRUE, v |-> v.v]
    ELSE [some |-> FALSE, v |-> Num(FALSE, <<0>>)]

(***************************************************************************)
(* What the visitor of each target type does with a scalar call of the     *)
(* reader: [ok, val, err].                                                 *)
(*   Value: serde_transcode forwards the call to value::Serializer.        *)
(*   Trace: records the call.                                              *)
(*   i32, bool: serde's primitive visitors.                                *)
(*   Vec, tuple: accept no scalar.                                         *)
(***************************************************************************)
Visited(val) == [ok |-> TRUE, val |-> val, err |-> NoErr]
Refused(err) == [ok |-> FALSE, val |-> Nil, err |-> err]

VisitValue(call, arg) ==
    CASE call = "visit_i8"       -> vs_serialize_i8(arg)
      [] call = "visit_i16"      -> vs_serialize_i16(arg)
      [] call = "visit_i32"      -> vs_serialize_i32(arg)
      [] call = "visit_i64"      -> vs_serialize_i64(arg)
      [] call = "visit_bool"     -> vs_serialize_bool(arg)
      [] call = "visit_str"      -> vs_serialize_str(arg)
      [] call = "visit_f64"      -> vs_serialize_f64(arg)
      [] call = "visit_byte_buf" -> vs_serialize_bytes(arg)
      [] call = "visit_unit"     -> vs_serialize_unit
      [] call = "visit_none"     -> vs_serialize_none

Visit(T, call, arg) ==
    CASE T.k = "Value" -> Visited(VisitValue(call, arg))
      [] T.k = "Trace" -> Visited(Val(call, arg))
      [] T.k = "I32"   ->
            IF call \in {"visit_i8", "visit_i16", "visit_i32"} THEN Visited(Val("I32", arg))
            ELSE IF call = "visit_i64"
                 THEN IF FitsI32(arg) THEN Visited(Val("I32", arg)) ELSE Refused(InvalidValue)
            ELSE Refused(InvalidType)
      [] T.k = "Bool"  ->
            IF call = "visit_bool" THEN Visited(Val("Bool", arg)) ELSE Refused(InvalidType)
      [] OTHER         -> Refused(InvalidType)

(***************************************************************************)
(* ReaderExt::expect_tag (src/src/xml_ext.rs).  An operation named ...On   *)
(* is the part of the operation before it that runs once the event (or     *)
(* the result) it waits for has arrived.                                   *)
(***************************************************************************)
RECURSIVE expect_tag(_, _, _)

\* a faulty ExpectTagOn: a declaration is not skipped
ExpectTagOnDecl(doc, end, e) ==
    CASE e.ev.k = "Start" ->
            IF e.ev.name # end
            THEN Fail(Err("UnexpectedTag", e.ev.name, end, <<>>), e.pos)
            ELSE Ok(Nil, e.pos)
      [] e.ev.k = "Err"   -> Fail(Err("UnexpectedError", "", end, <<>>), e.pos)
      [] OTHER            -> Fail(Err("UnexpectedEvent", "", end, <<>>), e.pos)
ExpectTagOn(doc, end, e) ==
    CASE e.ev.k = "Decl"  -> expect_tag(doc, e.pos, end)
      [] e.ev.k = "Start" ->
            IF e.ev.name # end
            THEN Fail(Err("UnexpectedTag", e.ev.name, end, <<>>), e.pos)
            ELSE Ok(Nil, e.pos)
      [] e.ev.k = "Err"   -> Fail(Err("UnexpectedError", "", end, <<>>), e.pos)
      [] OTHER            -> Fail(Err("UnexpectedEvent", "", end, <<>>), e.pos)

expect_tag(doc, p, end) == ExpectTagOn(doc, end, read_event(doc, p))

(***************************************************************************)
(* The Value Reader (src/src/de.rs).  Every operation takes the document   *)
(* and the cursor (the number of tokens consumed) and returns              *)
(* [ok, val, err, pos], pos being the cursor it leaves.                    *)
(***************************************************************************)
RECURSIVE Deserialize(_, _, _)
RECURSIVE deserialize_any(_, _, _)
RECURSIVE deserialize_option(_, _, _)
RECURSIVE visit_seq(_, _, _)
RECURSIVE visit_map(_, _, _)
RECURSIVE next_element_seed(_, _, _)
RECURSIVE next_value_seed(_, _, _)
RECURSIVE SeqLoop(_, _, _, _)
RECURSIVE TupleLoop(_, _, _, _)
RECURSIVE MapLoop(_, _, _, _)

\* what the visitor returned, at cursor p
Visiting(v, p) == IF v.ok THEN Ok(v.val, p) ELSE Fail(v.err, p)

\* a faulty IntVisit: the 8-bit attempt is missing
IntVisitNoI8(val) ==
    IF FitsI16(val) THEN "visit_i16"
    ELSE IF FitsI32(val) THEN "visit_i32"
    ELSE "visit_i64"

\* The visitor call an integer is delivered through: the first of
\* i8, i16, i32 that val.try_into() accepts, else i64.
IntVisit(val) ==
    IF FitsI8(val) THEN "visit_i8"
    ELSE IF FitsI16(val) THEN "visit_i16"
    ELSE IF FitsI32(val) THEN "visit_i32"
    ELSE "visit_i64"

IntTag(T, text, n) ==
    IF ~n.ok THEN Refused(Err("ParseIntError", "", n.why, text))
    ELSE Visit(T, IntVisit(n.num), n.num)

\* a faulty BooleanTag: whatever is not "1" is false
BooleanTagLenient(T, text) == Visit(T, "visit_bool", text = <<"1">>)

BooleanTag(T, text) ==
    IF text = <<"1">> THEN Visit(T, "visit_bool", TRUE)
    ELSE IF text = <<"0">> THEN Visit(T, "visit_bool", FALSE)
    ELSE Refused(Err("BooleanDecodeError", "", "", text))

DoubleTag(T, text, d) ==
    IF ~d.ok THEN Refused(Err("ParseFloatError", "", "", text))
    ELSE Visit(T, "visit_f64", d.num)

Base64Tag(T, text, b) ==
    IF ~b.ok THEN Refused(Err("Base64DecodeError", "", "", text))
    ELSE Visit(T, "visit_byte_buf", b.bytes)

ScalarTags == {"int", "i4", "i8", "boolean", "string", "double", "dateTime.iso8601", "base64"}

\* The arms of deserialize_any that read the text t of a scalar tag.
ScalarTag(T, name, t) ==
    IF ~t.ok THEN Fail(XmlError, t.pos)
    ELSE Visiting(CASE name \in {"int", "i4", "i8"} -> IntTag(T, t.text, ParseI64(t.text))
                    [] name = "boolean" -> BooleanTag(T, t.text)
                    [] name \in {"string", "dateTime.iso8601"} -> Visit(T, "visit_str", t.text)
                    [] name = "double" -> DoubleTag(T, t.text, ParseF64(t.text))
                    [] name = "base64" -> Base64Tag(T, t.text, Base64Decode(t.text)),
                  t.pos)

TextEvent(T, p, u) == IF ~u.ok THEN Fail(XmlError, p) ELSE Visiting(Visit(T, "visit_str", u.text), p)

ArrayTag(doc, T, d) == IF ~d.ok THEN d ELSE visit_seq(doc, d.pos, T)

\* a faulty NilTag: <nil/> delivered as the empty string
NilTagAsString(T, r) ==
    IF ~r.ok THEN Fail(XmlError, r.pos) ELSE Visiting(Visit(T, "visit_str", <<>>), r.pos)

NilTag(T, r) ==
    IF ~r.ok THEN Fail(XmlError, r.pos) ELSE Visiting(Visit(T, "visit_unit", <<>>), r.pos)

\* let ret = match self.reader.read_event() { ... }, but for the arm of the
\* empty value
ValueContent(doc, T, e) ==
    CASE e.ev.k = "Text" -> TextEvent(T, e.pos, Unescape(e.ev.text))
      [] e.ev.k = "Start" /\ e.ev.name \in ScalarTags ->
            ScalarTag(T, e.ev.name, read_text(doc, e.pos, e.ev.name))
      [] e.ev.k = "Start" /\ e.ev.name = "struct" -> visit_map(doc, e.pos, T)
      [] e.ev.k = "Start" /\ e.ev.name = "array" ->
            ArrayTag(doc, T, expect_tag(doc, e.pos, "data"))
      [] e.ev.k = "Start" /\ e.ev.name = "nil" -> NilTag(T, read_to_end(doc, e.pos, "nil"))
      [] e.ev.k = "Start" /\ e.ev.name \notin ScalarTags \cup {"struct", "array", "nil"} ->
            Fail(Err("UnexpectedTag", e.ev.name, ValueTags, <<>>), e.pos)
      [] e.ev.k = "Eof" -> Fail(Err("UnexpectedEOF", "", ValueTags, <<>>), e.pos)
      [] e.ev.k = "Err" -> Fail(XmlError, e.pos)
      [] OTHER -> Fail(Err("UnexpectedEvent", "", ValueTags, <<>>), e.pos)

\* The trailing self.reader.read_to_end(QName(b"value")) of deserialize_any,
\* reached when no arm returned early.
FinishOn(ret, r) == IF r.ok THEN Ok(ret.val, r.pos) ELSE Fail(XmlError, r.pos)

\* variant: nothing is passed over after the value
FinishValueAtOnce(doc, ret) == ret

FinishValue(doc, ret) == IF ~ret.ok THEN ret ELSE FinishOn(ret, read_to_end(doc, ret.pos, "value"))

\* Deserializer::deserialize_any.  On </value> the value is empty and the
\* empty string is returned at once.
DeserializeAnyOn(doc, T, e) ==
    IF e.ev.k = "End" /\ e.ev.name = "value"
    THEN Visiting(Visit(T, "visit_str", <<>>), e.pos)
    ELSE FinishValue(doc, ValueContent(doc, T, e))

\* a faulty deserialize_any: the end of the input is taken for </value>
deserialize_any_to_eof(doc, p, T) ==
    IF read_event(doc, p).ev.k = "Eof"
    THEN Visiting(Visit(T, "visit_str", <<>>), p)
    ELSE DeserializeAnyOn(doc, T, read_event(doc, p))
deserialize_any(doc, p, T) == DeserializeAnyOn(doc, T, read_event(doc, p))

\* Deserializer::deserialize_option: peek at the next event on a clone of the
\* reader; on <nil> the clone, advanced past </nil>, replaces the reader and
\* visit_none is returned.
NilOption(p, r) == IF r.ok THEN Ok(Val("None", <<>>), r.pos) ELSE Fail(XmlError, p)

SomeOption(inner) == IF inner.ok THEN Ok(Val("Some", inner.val), inner.pos) ELSE inner

\* variant: the event looked at is consumed
DeserializeOptionOnTaken(doc, p, T, peek) ==
    IF peek.ev.k = "Start" /\ peek.ev.name = "nil"
    THEN NilOption(p, read_to_end(doc, peek.pos, "nil"))
    ELSE SomeOption(Deserialize(doc, peek.pos, T))

DeserializeOptionOn(doc, p, T, peek) ==
    IF peek.ev.k = "Start" /\ peek.ev.name = "nil"
    THEN NilOption(p, read_to_end(doc, peek.pos, "nil"))
    ELSE SomeOption(Deserialize(doc, p, T))

deserialize_option(doc, p, T) == DeserializeOptionOn(doc, p, T, read_event(doc, p))

\* Reading into a Value goes through serde_transcode, which passes an error
\* on as its message.
Transcoded(T, r) == IF T.k = "Value" /\ ~r.ok THEN Fail(Custom(r.err), r.pos) ELSE r

\* T::deserialize(deserializer): Option<T> asks for deserialize_option, every
\* other target is forwarded to deserialize_any.
Deserialize(doc, p, T) ==
    IF T.k = "Opt" THEN deserialize_option(doc, p, T.of[1])
    ELSE Transcoded(T, deserialize_any(doc, p, T))

\* What a next_element_seed or next_key_seed call returns: none is Ok(None),
\* the end of the sequence or map.
Step(r, none) == [ok |-> r.ok, none |-> none, val |-> r.val, err |-> r.err, pos |-> r.pos]

EndOfSeq(r) == IF r.ok THEN Step(Ok(Nil, r.pos), TRUE) ELSE Step(Fail(XmlError, r.pos), FALSE)

\* variant: the sequence ends at </data> and the cursor stays there
NextElementOnAtData(doc, T, e) ==
    CASE e.ev.k = "End" /\ e.ev.name = "data" -> Step(Ok(Nil, e.pos), TRUE)
      [] e.ev.k = "Start" /\ e.ev.name = "value" -> Step(Deserialize(doc, e.pos, T), FALSE)
      [] e.ev.k = "Err" -> Step(Fail(XmlError, e.pos), FALSE)
      [] OTHER -> Step(Fail(Err("UnexpectedEvent", "", "one of value", <<>>), e.pos), FALSE)

\* SeqDeserializer::next_element_seed, after SeqDeserializer::new has matched
\* <data>: [ok, none, val, err, pos]
NextElementOn(doc, T, e) ==
    CASE e.ev.k = "End" /\ e.ev.name = "data" -> EndOfSeq(read_to_end(doc, e.pos, "array"))
      [] e.ev.k = "Start" /\ e.ev.name = "value" -> Step(Deserialize(doc, e.pos, T), FALSE)
      [] e.ev.k = "Err" -> Step(Fail(XmlError, e.pos), FALSE)
      [] OTHER -> Step(Fail(Err("UnexpectedEvent", "", "one of value", <<>>), e.pos), FALSE)

next_element_seed(doc, p, T) == NextElementOn(doc, T, read_event(doc, p))

\* A visitor that pulls elements until the sequence ends (Vec<T>, the
\* transcoder behind Value, the recording visitor).
\* a faulty SeqLoopOn: the elements are collected in reverse order
SeqLoopOnReversed(doc, T, acc, r) ==
    IF ~r.ok THEN Fail(r.err, r.pos)
    ELSE IF r.none THEN Ok(acc, r.pos)
    ELSE SeqLoop(doc, r.pos, T, <<r.val>> \o acc)

SeqLoopOn(doc, T, acc, r) ==
    IF ~r.ok THEN Fail(r.err, r.pos)
    ELSE IF r.none THEN Ok(acc, r.pos)
    ELSE SeqLoop(doc, r.pos, T, Append(acc, r.val))

SeqLoop(doc, p, T, acc) == SeqLoopOn(doc, T, acc, next_element_seed(doc, p, T))

\* The visitor of a tuple: pulls one element per field and then stops.
TupleLoopOn(doc, Ts, acc, r) ==
    IF ~r.ok THEN Fail(r.err, r.pos)
    ELSE IF r.none THEN Fail(InvalidLength, r.pos)
    ELSE TupleLoop(doc, r.pos, Ts, Append(acc, r.val))

TupleLoop(doc, p, Ts, acc) ==
    IF Len(acc) = Len(Ts) THEN Ok(acc, p)
    ELSE TupleLoopOn(doc, Ts, acc, next_element_seed(doc, p, Ts[Len(acc) + 1]))

\* the value a visitor makes of the elements it pulled
SeqEnd(T, r) ==
    IF ~r.ok THEN r
    ELSE Ok(CASE T.k = "Value" -> vs_seq_end(r.val)
              [] T.k = "Trace" -> Val("visit_seq", r.val)
              [] OTHER         -> Val("Seq", r.val),
            r.pos)

\* visitor.visit_seq(SeqDeserializer) for each target type
visit_seq(doc, p, T) ==
    CASE T.k \in {"Value", "Trace"} -> SeqEnd(T, SeqLoop(doc, p, T, <<>>))
      [] T.k = "Vec"   -> SeqEnd(T, SeqLoop(doc, p, T.of[1], <<>>))
      [] T.k = "Tuple" -> SeqEnd(T, TupleLoop(doc, p, T.of, <<>>))
      [] OTHER -> Fail(InvalidType, p)

\* MapKeyDeserializer::deserialize_any: the key is the text of <name>
MapKey(t) ==
    IF ~t.ok THEN Step(Fail(XmlError, t.pos), FALSE) ELSE Step(Ok(t.text, t.pos), FALSE)

MemberName(doc, n) ==
    IF ~n.ok THEN Step(n, FALSE) ELSE MapKey(read_text(doc, n.pos, "name"))

\* MapDeserializer::next_key_seed: [ok, none, val, err, pos]
NextKeyOn(doc, e) ==
    CASE e.ev.k = "End" /\ e.ev.name = "struct" -> Step(Ok(<<>>, e.pos), TRUE)
      [] e.ev.k = "Start" /\ e.ev.name = "member" ->
            MemberName(doc, expect_tag(doc, e.pos, "name"))
      [] e.ev.k = "Err" -> Step(Fail(XmlError, e.pos), FALSE)
      [] OTHER -> Step(Fail(Err("UnexpectedEvent", "", "map key read", <<>>), e.pos), FALSE)

next_key_seed(doc, p) == NextKeyOn(doc, read_event(doc, p))

\* MapDeserializer::next_value_seed: whatever the value read returned, the
\* cursor is then moved past </member>.
AfterMember(ret, r) == IF ~r.ok THEN Fail(XmlError, r.pos) ELSE [ret EXCEPT !.pos = r.pos]

ToEndOfMember(doc, ret) == AfterMember(ret, read_to_end(doc, ret.pos, "member"))

\* variant: the cursor is left where the value ended
NextValueOnInPlace(doc, T, e) ==
    CASE e.ev.k = "Start" /\ e.ev.name = "value" -> Deserialize(doc, e.pos, T)
      [] e.ev.k = "Err" -> Fail(XmlError, e.pos)
      [] OTHER -> Fail(Err("UnexpectedEvent", "", "map value read", <<>>), e.pos)

NextValueOn(doc, T, e) ==
    ToEndOfMember(doc,
        CASE e.ev.k = "Start" /\ e.ev.name = "value" -> Deserialize(doc, e.pos, T)
          [] e.ev.k = "Err" -> Fail(XmlError, e.pos)
          [] OTHER -> Fail(Err("UnexpectedEvent", "", "map value read", <<>>), e.pos))

next_value_seed(doc, p, T) == NextValueOn(doc, T, read_event(doc, p))

\* The visit_map loops: the transcoder behind Value inserts each entry into
\* the map being built (SerializeMap); the recording visitor lists them.
MapEntry(doc, T, acc, k, v) ==
    IF ~v.ok THEN Fail(v.err, v.pos)
    ELSE MapLoop(doc, v.pos, T,
                 IF T.k = "Value"
                 THEN vs_map_insert(acc, k.val, v.val)
                 ELSE Append(acc, <<k.val, v.val>>))

MapLoopOn(doc, T, acc, k) ==
    IF ~k.ok THEN Fail(k.err, k.pos)
    ELSE IF k.none THEN Ok(acc, k.pos)
    ELSE MapEntry(doc, T, acc, k, next_value_seed(doc, k.pos, T))

MapLoop(doc, p, T, acc) == MapLoopOn(doc, T, acc, next_key_seed(doc, p))

MapEnd(T, r) ==
    IF ~r.ok THEN r
    ELSE Ok(IF T.k = "Value" THEN vs_map_end(r.val) ELSE Val("visit_map", r.val), r.pos)

visit_map(doc, p, T) ==
    CASE T.k = "Value" -> MapEnd(T, MapLoop(doc, p, T, EmptyMap))
      [] T.k = "Trace" -> MapEnd(T, MapLoop(doc, p, T, <<>>))
      [] OTHER -> Fail(InvalidType, p)

\* value_from_str (src/src/lib.rs)
ValueFromStrOn(reader, T, e) == IF ~e.ok THEN e ELSE Deserialize(reader, e.pos, T)

ValueFromStrIn(reader, T) == ValueFromStrOn(reader, T, expect_tag(reader, 0, "value"))

value_from_str(doc, T) == ValueFromStrIn(Expand(doc), T)

(***************************************************************************)
(* The Value Writer (src/src/ser.rs) over WriterExt (src/src/xml_ext.rs).  *)
(* Every operation returns the tokens it appends to the sink.              *)
(***************************************************************************)
write_start_tag(tag) == <<Start(tag)>>
write_end_tag(tag)   == <<End(tag)>>
\* BytesText::new(text): the text is escaped
write_text(text)      == <<Text(Escape(text))>>
\* BytesText::from_escaped(text): the text is written as it is
write_safe_text(text) == <<Text(text)>>

write_tag(tag, text) == write_start_tag(tag) \o write_text(text) \o write_end_tag(tag)

write_safe_tag(tag, text) ==
    write_start_tag(tag) \o write_safe_text(text) \o write_end_tag(tag)

serialize_bool(v) ==
    write_start_tag("value")
        \o write_safe_tag("boolean", IF v THEN <<"1">> ELSE <<"0">>)
        \o write_end_tag("value")

serialize_i64(v) ==
    write_start_tag("value") \o write_safe_tag("int", IntToString(v)) \o write_end_tag("value")

serialize_i32(v) == serialize_i64(v)

serialize_f64(v) ==
    write_start_tag("value") \o write_safe_tag("double", F64ToString(v))
        \o write_end_tag("value")

serialize_str(v) ==
    write_start_tag("value") \o write_tag("string", v) \o write_end_tag("value")

serialize_bytes(v) ==
    write_start_tag("value") \o write_safe_tag("base64", Base64Encode(v))
        \o write_end_tag("value")

serialize_unit == write_start_tag("value") \o <<Empty("nil")>> \o write_end_tag("value")

serialize_none == serialize_unit

\* Serializer::serialize_seq and SerializeSeq::end
serialize_seq ==
    write_start_tag("value") \o write_start_tag("array") \o write_start_tag("data")

seq_end == write_end_tag("data") \o write_end_tag("array") \o write_end_tag("value")

\* Serializer::serialize_map and SerializeMap::end
serialize_map == write_start_tag("value") \o write_start_tag("struct")

map_end == write_end_tag("struct") \o write_end_tag("value")

\* SerializeMap::serialize_key with MapKeySerializer::serialize_str
serialize_key(key) == write_start_tag("member") \o write_tag("name", key)

\* SerializeMap::serialize_value, given what the value's own serialization wrote
serialize_value(written) == written \o write_end_tag("member")

(***************************************************************************)
(* BTreeMap<String, Value> iterates in the byte order of its keys.         *)
(***************************************************************************)
Ascii == <<"\t", "\n", "\r", " ", "\"", "&", "'", "+", "-", ".", "/",
           "0", "1", "2", "3", "4", "5", "6", "7", "8", "9", ":", ";", "<", "=", ">",
           "A", "B", "C", "D", "E", "F", "G", "H", "I", "J", "K", "L", "M",
           "N", "O", "P", "Q", "R", "S", "T", "U", "V", "W", "X", "Y", "Z",
           "a", "b", "c", "d", "e", "f", "g", "h", "i", "j", "k", "l", "m",
           "n", "o", "p", "q", "r", "s", "t", "u", "v", "w", "x", "y", "z">>

CharCode(c) ==
    IF \E i \in 1..Len(Ascii) : Ascii[i] = c
    THEN CHOOSE i \in 1..Len(Ascii) : Ascii[i] = c
    ELSE 0

RECURSIVE TextLE(_, _)
TextLE(a, b) ==
    IF a = <<>> THEN TRUE
    ELSE IF b = <<>> THEN FALSE
    ELSE IF Head(a) # Head(b) THEN CharCode(Head(a)) < CharCode(Head(b))
    ELSE TextLE(Tail(a), Tail(b))

RECURSIVE SortedKeys(_)
SortedKeys(keys) ==
    IF keys = {} THEN <<>>
    ELSE LET first == CHOOSE k \in keys : \A j \in keys : TextLE(k, j)
         IN  <<first>> \o SortedKeys(keys \ {first})

(***************************************************************************)
(* Writing a Value: transcode(value::Deserializer::from_value(value),      *)
(* ValueSerializer::new(&mut writer)), the body of the loops of            *)
(* request_to_string and response_to_string.  Value's deserialize_any      *)
(* (src/src/value/de.rs) picks the visitor call, the transcoder forwards   *)
(* it to the Value Writer.                                                 *)
(***************************************************************************)
RECURSIVE transcode_value(_)
RECURSIVE TranscodeSeq(_)
RECURSIVE TranscodeMap(_, _)

transcode_value(v) ==
    CASE v.t = "Int"      -> serialize_i32(v.v)                      \* visit_i32
      [] v.t = "Int64"    -> serialize_i64(v.v)                      \* visit_i64
      [] v.t = "Bool"     -> serialize_bool(v.v)                     \* visit_bool
      [] v.t = "String"   -> serialize_str(v.v)                      \* visit_string
      [] v.t = "Double"   -> serialize_f64(v.v)                      \* visit_f64
      [] v.t = "DateTime" -> serialize_str(DateTimeToString(v.v))    \* visit_string
      [] v.t = "Base64"   -> serialize_bytes(v.v)                    \* visit_bytes
      [] v.t = "Struct"   ->
            serialize_map \o TranscodeMap(v.v, SortedKeys(DOMAIN v.v)) \o map_end
      [] v.t = "Array"    -> serialize_seq \o TranscodeSeq(v.v) \o seq_end
      [] v.t = "Nil"      -> serialize_none                          \* visit_none

TranscodeSeq(vec) ==
    IF vec = <<>> THEN <<>> ELSE transcode_value(Head(vec)) \o TranscodeSeq(Tail(vec))

TranscodeMap(map, keys) ==
    IF keys = <<>> THEN <<>>
    ELSE serialize_key(Head(keys)) \o serialize_value(transcode_value(map[Head(keys)]))
            \o TranscodeMap(map, Tail(keys))

(***************************************************************************)
(* Documents handed to the reader.  They are well nested: the tokenizer's  *)
(* own check of mismatched end tags never fires on them.                   *)
(***************************************************************************)
TextBody(t) == IF t = <<>> THEN <<>> ELSE <<Text(t)>>

\* magnitudes around the limits of the 8, 16, 32 and 64 bit signed ranges
BoundaryMags ==
    { <<0>>, <<1>>, <<1, 2, 7>>, <<1, 2, 8>>, <<1, 2, 9>>,
      <<3, 2, 7, 6, 7>>, <<3, 2, 7, 6, 8>>, <<3, 2, 7, 6, 9>>,
      <<2, 1, 4, 7, 4, 8, 3, 6, 4, 7>>, <<2, 1, 4, 7, 4, 8, 3, 6, 4, 8>>,
      <<2, 1, 4, 7, 4, 8, 3, 6, 4, 9>>,
      <<9, 2, 2, 3, 3, 7, 2, 0, 3, 6, 8, 5, 4, 7, 7, 5, 8, 0, 7>>,
      <<9, 2, 2, 3, 3, 7, 2, 0, 3, 6, 8, 5, 4, 7, 7, 5, 8, 0, 8>>,
      <<9, 2, 2, 3, 3, 7, 2, 0, 3, 6, 8, 5, 4, 7, 7, 5, 8, 0, 9>> }

IntTexts ==
    { IntToString(Num(neg, m)) : neg \in BOOLEAN, m \in BoundaryMags }
        \cup { <<>>, <<"a">>, <<"1", "a">>, <<"+", "5">>, <<"0", "0", "7">>, <<"-">>,
               <<" ", "1">>, <<"1", ".", "0">> }

BoolTexts == { <<"1">>, <<"0">>, <<"2">>, <<"t", "r", "u", "e">>, <<>>, <<" ", "1">> }

BareTexts ==
    { <<"a">>, <<" ", "a", " ">>, <<" ">>, <<"a", "&", "l", "t", ";", "b">>,
      <<"a", " ", "b">>, <<"1">>, <<"&", "x", ";">> }

\* what can stand between <value> and </value>
ScalarContents ==
    { Element(tag, TextBody(t)) : tag \in {"int", "i4", "i8"}, t \in IntTexts }
        \cup { Element("boolean", TextBody(t)) : t \in BoolTexts }
        \cup { Element("string", TextBody(t)) : t \in BareTexts \cup {<<>>} }
        \cup { Element("double", TextBody(t)) : t \in {<<"1", ".", "5">>, <<"-", "2">>, <<"x">>} }
        \cup { Element("base64", TextBody(t)) : t \in {<<"A", "Q", "I", "=">>, <<"!">>, <<>>} }
        \cup { Element("dateTime.iso8601", TextBody(<<"2", "0", "1", "5">>)) }
        \cup { <<Text(t)>> : t \in BareTexts }
        \cup { <<>>, <<Empty("nil")>>, Element("nil", <<>>), Element("foo", <<>>),
               <<Comment>>, <<CData>>, <<Malformed>> }

CoreContents ==
    { Element("int", <<Text(<<"1">>)>>), <<Text(<<"a">>)>>, <<>>, <<Empty("nil")>> }

MemberNames == { <<"a">>, <<"b">> }

ArrayOf(data) == Element("value", Element("array", Element("data", data)))

StructOf(members) == Element("value", Element("struct", members))

MemberOf(name, v) == Element("member", Element("name", TextBody(name)) \o v)

\* the <value> elements of exactly n values, the runs of <value> children
\* and the runs of <member> entries holding exactly m values
RECURSIVE ValueDocs(_)
RECURSIVE DataDocs(_)
RECURSIVE MemberDocs(_)

ValueDocs(n) ==
    (IF n = 1 THEN { Element("value", c) : c \in CoreContents } ELSE {})
        \cup { ArrayOf(d) : d \in DataDocs(n - 1) }
        \cup { StructOf(m) : m \in MemberDocs(n - 1) }

DataDocs(m) ==
    IF m = 0 THEN { <<>> }
    ELSE UNION { { v \o d : v \in ValueDocs(j), d \in DataDocs(m - j) } : j \in 1..m }

MemberDocs(m) ==
    IF m = 0 THEN { <<>> }
    ELSE UNION { { MemberOf(k, v) \o d :
                        k \in MemberNames, v \in ValueDocs(j), d \in MemberDocs(m - j) }
                 : j \in 1..m }

TreeDocs == UNION { ValueDocs(n) : n \in 1..MaxNodes }

\* documents that end right after a <value> tag
TruncatedDocs ==
    { <<Start("value")>>,
      <<Start("value"), Start("array"), Start("data"), Start("value")>> }

\* every scalar content at top level, as the only element of an array and
\* as the only member of a struct
ScalarDocs ==
    { Element("value", c) : c \in ScalarContents }
        \cup { ArrayOf(Element("value", c)) : c \in ScalarContents }
        \cup { StructOf(MemberOf(<<"a">>, Element("value", c))) : c \in ScalarContents }
        \cup { <<Empty("value")>>, <<Decl, Empty("value")>>, ArrayOf(<<Empty("value")>>) }
        \cup TruncatedDocs

TypedTargets ==
    { TI32, TBool, TOpt(TI32), TOpt(TValue), TVec(TValue), TVec(TOpt(TI32)),
      TTuple(<<TI32, TOpt(TI32)>>), TTuple(<<TValue>>) }

\* a value followed by more of the text: value_from_str reads the first value
FollowedDocs == { d \o Element("value", <<Text(<<"z">>)>>) : d \in TreeDocs }

ReadInputs ==
    ((ScalarDocs \cup TreeDocs \cup FollowedDocs) \X {TValue, TTrace})
        \cup ((TreeDocs \cup FollowedDocs) \X TypedTargets)
        \cup ({ Element("value", c) : c \in ScalarContents } \X {TI32, TBool})

(***************************************************************************)
(* The state machine of a read: a caller hands a document and a target     *)
(* type to value_from_str and receives its result.                         *)
(***************************************************************************)
Idle == Ok(Nil, 0)

InitRead ==
    /\ \E i \in ReadInputs : input = i[1] /\ target = i[2]
    /\ value = Nil
    /\ out = <<>>
    /\ result = Idle
    /\ pc = "read"

ValueFromStr ==
    /\ pc = "read"
    /\ result' = value_from_str(input, target)
    /\ pc' = "done"
    /\ UNCHANGED <<input, target, value, out>>

Init == InitRead

Next == ValueFromStr

Spec == Init /\ [][Next]_vars

(***************************************************************************)
(* Values handed to the writer.                                            *)
(***************************************************************************)
DateTimes ==
    { [year |-> 2015, month |-> 2, day |-> 18, hour |-> 23, minute |-> 16, second |-> 9] }

ScalarValues ==
    { Val("Int", Num(neg, m)) :
        neg \in BOOLEAN, m \in {<<1>>, <<1, 2, 8>>, <<2, 1, 4, 7, 4, 8, 3, 6, 4, 7>>} }
        \cup { Val("Int", Num(FALSE, <<0>>)), Val("Int", Num(TRUE, I32Min)) }
        \cup { Val("Int64", Num(neg, m)) : neg \in BOOLEAN, m \in {<<5>>, I32Min, I64Max} }
        \cup { Val("Int64", Num(TRUE, I64Min)) }
        \cup { Val("Bool", b) : b \in BOOLEAN }
        \cup { Val("String", t) :
                 t \in { <<>>, <<"a">>, <<"a", " ", "b">>, <<"<">>, <<"a", "&", "b">>,
                         <<"1">>, <<" ">> } }
        \cup { Val("Double", d) :
                 d \in { F64(FALSE, <<0>>, <<>>), F64(FALSE, <<1>>, <<5>>),
                         F64(TRUE, <<2>>, <<>>), F64(FALSE, <<0>>, <<2, 5>>) } }
        \cup { Val("DateTime", dt) : dt \in DateTimes }
        \cup { Val("Base64", b) : b \in { <<>>, <<1>>, <<1, 2>>, <<1, 2, 3>>, <<255, 0, 7, 9>> } }
        \cup { Nil }

CoreValues == { Val("Int", Num(FALSE, <<1>>)), Val("String", <<"a">>), Nil }

\* the Value trees of exactly n values, the sequences and the maps of Values
\* of m values in total
RECURSIVE ValuesOf(_)
RECURSIVE ValueSeqs(_)
RECURSIVE ValueMaps(_)

ValuesOf(n) ==
    (IF n = 1 THEN CoreValues ELSE {})
        \cup { Val("Array", vec) : vec \in ValueSeqs(n - 1) }
        \cup { Val("Struct", map) : map \in ValueMaps(n - 1) }

ValueSeqs(m) ==
    IF m = 0 THEN { <<>> }
    ELSE UNION { { <<v>> \o vec : v \in ValuesOf(j), vec \in ValueSeqs(m - j) } : j \in 1..m }

ValueMaps(m) ==
    IF m = 0 THEN { EmptyMap }
    ELSE UNION { { MapInsert(map, k, v) :
                        k \in MemberNames, v \in ValuesOf(j), map \in ValueMaps(m - j) }
                 : j \in 1..m }

WrittenValues ==
    ScalarValues
        \cup { Val("Array", <<v>>) : v \in ScalarValues }
        \cup { Val("Struct", MapInsert(EmptyMap, <<"a">>, v)) : v \in ScalarValues }
        \cup UNION { ValuesOf(n) : n \in 1..MaxNodes }

(***************************************************************************)
(* The state machine of a write followed by a read: a Value is written as  *)
(* request_to_string and response_to_string write each parameter, and the  *)
(* text produced is read back with value_from_str.                         *)
(***************************************************************************)
InitWrite ==
    /\ value \in WrittenValues
    /\ input = <<>>
    /\ target = TValue
    /\ out = <<>>
    /\ result = Idle
    /\ pc = "write"

\* the body of the parameter loop of request_to_string / response_to_string
WriteValue ==
    /\ pc = "write"
    /\ out' = out \o transcode_value(value)
    /\ pc' = "written"
    /\ UNCHANGED <<input, target, value, result>>

\* the text written becomes the input of a read
ReadBack ==
    /\ pc = "written"
    /\ input' = out
    /\ pc' = "read"
    /\ UNCHANGED <<target, value, out, result>>

NextWrite == WriteValue \/ ReadBack \/ ValueFromStr

SpecWrite == InitWrite /\ [][NextWrite]_vars

(***************************************************************************)
(* Reading the structure of a well nested document off its tokens, for     *)
(* stating properties: independent of the reader above.                    *)
(***************************************************************************)
Done == pc = "done"

\* the tokens the reader works on
Tokens == Expand(input)

\* index of the end tag that closes the start tag at index i
RECURSIVE MatchFrom(_, _, _)
MatchFrom(doc, i, depth) ==
    IF i > Len(doc) THEN 0
    ELSE LET d == depth + (IF doc[i].k = "Start" THEN 1
                           ELSE IF doc[i].k = "End" THEN -1 ELSE 0)
         IN  IF d = 0 THEN i ELSE MatchFrom(doc, i + 1, d)

MatchingEnd(doc, i) == MatchFrom(doc, i, 0)

\* the run of tokens is one element named name
IsElement(run, name) ==
    /\ Len(run) >= 2
    /\ run[1] = Start(name)
    /\ MatchingEnd(run, 1) = Len(run)

Inner(el) == SubSeq(el, 2, Len(el) - 1)

\* the elements of a run of tokens that holds nothing but elements
RECURSIVE ChildElements(_)
ChildElements(run) ==
    IF run = <<>> \/ Head(run).k # "Start" \/ MatchingEnd(run, 1) = 0 THEN <<>>
    ELSE <<SubSeq(run, 1, MatchingEnd(run, 1))>>
            \o ChildElements(SubSeq(run, MatchingEnd(run, 1) + 1, Len(run)))

OnlyElements(run) == Concat(ChildElements(run)) = run

\* the document is exactly <value>content</value>
IsValueDoc(doc) == IsElement(doc, "value")

\* the document is <value><tag>text</tag></value> with at most one text node
IsScalarDoc(doc, tag) ==
    /\ IsValueDoc(doc)
    /\ IsElement(Inner(doc), tag)
    /\ Len(Inner(Inner(doc))) <= 1
    /\ \A i \in 1..Len(Inner(Inner(doc))) : Inner(Inner(doc))[i].k = "Text"

ScalarText(doc) == IF Inner(Inner(doc)) = <<>> THEN <<>> ELSE Inner(Inner(doc))[1].text

\* the document is <value><array><data>children</data></array></value>
IsArrayDoc(doc) ==
    /\ IsValueDoc(doc)
    /\ IsElement(Inner(doc), "array")
    /\ IsElement(Inner(Inner(doc)), "data")
    /\ OnlyElements(Inner(Inner(Inner(doc))))
    /\ \A i \in 1..Len(ChildElements(Inner(Inner(Inner(doc))))) :
            IsValueDoc(ChildElements(Inner(Inner(Inner(doc))))[i])

ArrayChildren(doc) == ChildElements(Inner(Inner(Inner(doc))))

\* a <member> with a <name> of at most one text node and a <value>
IsMember(m) ==
    /\ IsElement(m, "member")
    /\ OnlyElements(Inner(m))
    /\ Len(ChildElements(Inner(m))) = 2
    /\ IsElement(ChildElements(Inner(m))[1], "name")
    /\ Len(ChildElements(Inner(m))[1]) <= 3
    /\ IsValueDoc(ChildElements(Inner(m))[2])

MemberNameOf(m) ==
    IF Len(ChildElements(Inner(m))[1]) = 3 THEN ChildElements(Inner(m))[1][2].text ELSE <<>>

MemberValueOf(m) == ChildElements(Inner(m))[2]

\* the document is <value><struct>members</struct></value>
IsStructDoc(doc) ==
    /\ IsValueDoc(doc)
    /\ IsElement(Inner(doc), "struct")
    /\ OnlyElements(Inner(Inner(doc)))
    /\ \A i \in 1..Len(ChildElements(Inner(Inner(doc)))) :
            IsMember(ChildElements(Inner(Inner(doc)))[i])

StructMembers(doc) == ChildElements(Inner(Inner(doc)))

\* the cursor just after the first value of the document
FirstStart(doc) ==
    IF \E i \in 1..Len(doc) : doc[i].k = "Start"
    THEN CHOOSE i \in 1..Len(doc) : doc[i].k = "Start" /\ \A j \in 1..(i - 1) : doc[j].k # "Start"
    ELSE 0

AfterFirstValue(doc) == IF FirstStart(doc) = 0 THEN 0 ELSE MatchFrom(doc, FirstStart(doc), 0)

\* the variant of an error, also after serde passed it on as a message
ErrKind(e) == IF e.kind = "Custom" THEN e.cause ELSE e.kind

(***************************************************************************)
(* Properties of a read (specification Spec).                              *)
(***************************************************************************)

\* C2: whenever deserialize_any succeeds on the value of the document, the
\* cursor is left just after that value's </value>, whatever the target type
\* (nested values and tuple targets included).
C2_CursorAfterValue ==
    (Done /\ result.ok /\ target.k # "Opt") => result.pos = AfterFirstValue(Tokens)

IsNilValue(c) == IsValueDoc(c) /\ Inner(c) = Element("nil", <<>>)

IsIntOneValue(c) == c = Element("value", Element("int", <<Text(<<"1">>)>>))

\* C3: an optional target on a value holding <nil/> delivers none and leaves
\* the cursor after that value's </value>, so an array of <nil/> values and
\* other values reads into a sequence of none and some(v).
C3_NilOption ==
    /\ (Done /\ target.k = "Opt" /\ IsNilValue(Tokens)) =>
            /\ result.ok
            /\ result.val = Val("None", <<>>)
            /\ result.pos = AfterFirstValue(Tokens)
    /\ (/\ Done
        /\ target = TVec(TOpt(TI32))
        /\ IsArrayDoc(Tokens)
        /\ \A i \in 1..Len(ArrayChildren(Tokens)) :
                IsNilValue(ArrayChildren(Tokens)[i]) \/ IsIntOneValue(ArrayChildren(Tokens)[i])) =>
            /\ result.ok
            /\ result.val =
                 Val("Seq", [i \in 1..Len(ArrayChildren(Tokens)) |->
                                IF IsNilValue(ArrayChildren(Tokens)[i])
                                THEN Val("None", <<>>)
                                ELSE Val("Some", Val("I32", Num(FALSE, <<1>>)))])

\* a value that is bare text (well formed), empty, or <nil/>
IsBareText(c) ==
    /\ IsValueDoc(c)
    /\ Len(Inner(c)) = 1
    /\ Inner(c)[1].k = "Text"
    /\ Unescape(Inner(c)[1].text).ok

IsPlainValue(c) == IsBareText(c) \/ (IsValueDoc(c) /\ Inner(c) = <<>>) \/ IsNilValue(c)

\* what such a value reads as: text with the white space around it removed
\* and its entities resolved, the empty string, or Nil
PlainReading(c) ==
    IF IsNilValue(c) THEN Nil
    ELSE IF Inner(c) = <<>> THEN Val("String", <<>>)
    ELSE Val("String", Unescape(Trim(Inner(c)[1].text)).text)

\* the same, the bare text standing for itself
PlainReadingAsIs(c) ==
    IF IsNilValue(c) THEN Nil
    ELSE IF Inner(c) = <<>> THEN Val("String", <<>>)
    ELSE Val("String", Unescape(Inner(c)[1].text).text)

\* C4 (as amended): a value of bare text reads as that text without the white
\* space around it (the empty string if nothing else is there); <value></value>
\* and <value/> read as the empty String, never Nil; <nil/> reads as Nil,
\* never a string; at top level and for each element of an array.
C4_ImplicitStrings ==
    (Done /\ target = TValue) =>
        /\ IsPlainValue(Tokens) => (result.ok /\ result.val = PlainReading(Tokens))
        /\ (/\ IsArrayDoc(Tokens)
            /\ \A i \in 1..Len(ArrayChildren(Tokens)) : IsPlainValue(ArrayChildren(Tokens)[i])) =>
                /\ result.ok
                /\ result.val = Val("Array", [i \in 1..Len(ArrayChildren(Tokens)) |->
                                                PlainReading(ArrayChildren(Tokens)[i])])

\* C4 (as stated): a value of bare text reads as that very string.
C4_AsStated ==
    (Done /\ target = TValue) =>
        /\ IsPlainValue(Tokens) => (result.ok /\ result.val = PlainReadingAsIs(Tokens))
        /\ (/\ IsArrayDoc(Tokens)
            /\ \A i \in 1..Len(ArrayChildren(Tokens)) : IsPlainValue(ArrayChildren(Tokens)[i])) =>
                /\ result.ok
                /\ result.val = Val("Array", [i \in 1..Len(ArrayChildren(Tokens)) |->
                                                PlainReadingAsIs(ArrayChildren(Tokens)[i])])

C4_Witness ==
    /\ Done
    /\ target = TValue
    /\ input = ArrayOf(Element("value", <<Text(<<" ", "a", " ">>)>>))
    /\ result.ok
    /\ result.val = Val("Array", <<Val("String", <<"a">>)>>)

IntTagNames == {"int", "i4", "i8"}

InI64(n) == InRange(n, I64Max, I64Min)

\* the integers of the signed 64-bit range among the generated texts
SampleNums ==
    { n \in { Num(neg, m) : neg \in BOOLEAN, m \in BoundaryMags } :
        InI64(n) /\ ~(n.neg /\ n.mag = <<0>>) }

\* -2^(w-1) <= n <= 2^(w-1) - 1
Within(n, w) ==
    CASE w = 8  -> InRange(n, I8Max, I8Min)
      [] w = 16 -> InRange(n, I16Max, I16Min)
      [] w = 32 -> InRange(n, I32Max, I32Min)
      [] w = 64 -> InRange(n, I64Max, I64Min)

Narrowest(n) ==
    CHOOSE w \in {8, 16, 32, 64} : Within(n, w) /\ \A v \in {8, 16, 32} : v < w => ~Within(n, v)

VisitOfWidth(w) ==
    CASE w = 8 -> "visit_i8" [] w = 16 -> "visit_i16" [] w = 32 -> "visit_i32" [] w = 64 -> "visit_i64"

IntDoc(tag, n) == Element("value", Element(tag, <<Text(IntToString(n))>>))

\* C5: an integer n of the signed 64-bit range under <int>, <i4> or <i8> is
\* delivered through the narrowest of visit_i8, visit_i16, visit_i32, visit_i64
\* whose range holds n, the number delivered is n, and the tag name plays no part.
C5_SmallestWidth ==
    (Done /\ target = TTrace) =>
        \A tag \in IntTagNames : \A n \in SampleNums :
            input = IntDoc(tag, n) =>
                (result.ok /\ result.val = Val(VisitOfWidth(Narrowest(n)), n))

C5_Witness ==
    /\ Done
    /\ target = TTrace
    /\ input = IntDoc("i4", Num(TRUE, <<1, 2, 9>>))
    /\ result.ok
    /\ result.val.t = "visit_i16"

\* C6: reading such an integer into a Value gives Int(n) when n fits in 32
\* bits and Int64(n) otherwise; as_i64 is Some(n), as_i32 is Some(n) exactly
\* when n fits in 32 bits.
C6_IntIntoValue ==
    (Done /\ target = TValue) =>
        \A tag \in IntTagNames : \A n \in SampleNums :
            input = IntDoc(tag, n) =>
                /\ result.ok
                /\ result.val = Val(IF Within(n, 32) THEN "Int" ELSE "Int64", n)
                /\ as_i64(result.val) = [some |-> TRUE, v |-> n]
                /\ as_i32(result.val).some = Within(n, 32)
                /\ Within(n, 32) => as_i32(result.val).v = n

C6_Witness ==
    /\ Done
    /\ target = TValue
    /\ input = IntDoc("int", Num(FALSE, I32Min))
    /\ result.ok
    /\ result.val.t = "Int64"
    /\ ~as_i32(result.val).some

\* C7: <boolean> reads as true exactly on the text "1" and as false exactly on
\* "0"; any other text fails with BooleanDecodeError carrying that text, and
\* no boolean is delivered for it.
C7_BooleanStrict ==
    (Done /\ target \in {TValue, TTrace, TBool} /\ IsScalarDoc(Tokens, "boolean")) =>
        IF ScalarText(Tokens) \in {<<"1">>, <<"0">>}
        THEN result.ok /\ result.val.v = (ScalarText(Tokens) = <<"1">>)
        ELSE /\ ~result.ok
             /\ ErrKind(result.err) = "BooleanDecodeError"
             /\ result.err.text = ScalarText(Tokens)

C7_Witness ==
    /\ Done
    /\ target = TTrace
    /\ input = Element("value", Element("boolean", <<Text(<<"t", "r", "u", "e">>)>>))
    /\ ~result.ok
    /\ result.err.kind = "BooleanDecodeError"

\* the text is an optional sign followed by decimal digits
IsDecimal(t) ==
    /\ t # <<>>
    /\ IF Head(t) \in {"+", "-"} THEN Len(t) > 1 /\ AllDigits(Tail(t)) ELSE AllDigits(t)

\* the number a decimal text denotes
DecimalOf(t) ==
    LET mag == StripZeros(TextToDigits(IF Head(t) \in {"+", "-"} THEN Tail(t) ELSE t))
    IN  Num(Head(t) = "-" /\ mag # <<0>>, mag)

Denotes(t) == IsDecimal(t) /\ InI64(DecimalOf(t))

IsIntDoc(c) == \E tag \in IntTagNames : IsScalarDoc(c, tag)

\* C8: the text of an <int>, <i4> or <i8> tag is read as a base-10 signed
\* 64-bit integer; empty text, text that is no number and a number outside
\* [-2^63, 2^63-1] fail the whole read with a parse error, and what is
\* delivered otherwise is the number the text denotes.
C8_NoCoercion ==
    (Done /\ target \in {TValue, TTrace}) =>
        /\ IsIntDoc(Tokens) =>
            IF Denotes(ScalarText(Tokens))
            THEN result.ok /\ result.val.v = DecimalOf(ScalarText(Tokens))
            ELSE ~result.ok /\ ErrKind(result.err) = "ParseIntError"
        /\ (/\ IsArrayDoc(Tokens)
            /\ \E i \in 1..Len(ArrayChildren(Tokens)) :
                    /\ IsIntDoc(ArrayChildren(Tokens)[i])
                    /\ ~Denotes(ScalarText(ArrayChildren(Tokens)[i]))) => ~result.ok
        /\ (/\ IsStructDoc(Tokens)
            /\ \E i \in 1..Len(StructMembers(Tokens)) :
                    /\ IsIntDoc(MemberValueOf(StructMembers(Tokens)[i]))
                    /\ ~Denotes(ScalarText(MemberValueOf(StructMembers(Tokens)[i])))) => ~result.ok

C8_Witness ==
    /\ Done
    /\ target = TValue
    /\ input = ArrayOf(Element("value", Element("i8", <<Text(IntToString(Num(FALSE, I64Min)))>>)))
    /\ ~result.ok
    /\ ErrKind(result.err) = "ParseIntError"

\* C9: a <struct> read into a Value is a map with one entry per distinct
\* member name, the entry of a name holding the value of the last member of
\* that name.
C9_LastMemberWins ==
    (Done /\ target = TValue /\ IsStructDoc(Tokens) /\ result.ok) =>
        LET ms == StructMembers(Tokens)
        IN  /\ result.val.t = "Struct"
            /\ DOMAIN result.val.v = { MemberNameOf(ms[i]) : i \in 1..Len(ms) }
            /\ \A i \in 1..Len(ms) :
                  (\A j \in (i + 1)..Len(ms) : MemberNameOf(ms[j]) # MemberNameOf(ms[i])) =>
                      result.val.v[MemberNameOf(ms[i])]
                          = value_from_str(MemberValueOf(ms[i]), TValue).val

C9_Witness ==
    /\ Done
    /\ target = TValue
    /\ input = StructOf(MemberOf(<<"a">>, Element("value", <<Text(<<"a">>)>>))
                        \o MemberOf(<<"a">>, Element("value", <<Empty("nil")>>)))
    /\ result.ok
    /\ result.val = Val("Struct", MapInsert(EmptyMap, <<"a">>, Nil))

\* C10: an <array><data> of k <value> children reads as a sequence of exactly
\* k elements, the i-th being the reading of the i-th child, whatever the
\* shapes of the children; an empty <data> reads as the empty sequence.
C10_ArrayOrder ==
    (Done /\ target \in {TValue, TTrace} /\ IsArrayDoc(Tokens)) =>
        LET kids  == ArrayChildren(Tokens)
            reads == [i \in 1..Len(kids) |-> value_from_str(kids[i], target)]
        IN  IF \A i \in 1..Len(kids) : reads[i].ok
            THEN /\ result.ok
                 /\ result.val = Val(IF target = TValue THEN "Array" ELSE "visit_seq",
                                     [i \in 1..Len(kids) |-> reads[i].val])
            ELSE ~result.ok

C10_Witness ==
    /\ Done
    /\ target = TValue
    /\ input = ArrayOf(Element("value", Element("int", <<Text(<<"1">>)>>))
                       \o Element("value", <<Text(<<"a">>)>>))
    /\ result.ok
    /\ result.val = Val("Array", <<Val("Int", Num(FALSE, <<1>>)), Val("String", <<"a">>)>>)

(***************************************************************************)
(* Properties of a write followed by a read (specification SpecWrite).     *)
(***************************************************************************)

\* the Value with every Int64 that fits in 32 bits turned into an Int
RECURSIVE Narrowed(_)
Narrowed(v) ==
    CASE v.t = "Int64"  -> IF Within(v.v, 32) THEN Val("Int", v.v) ELSE v
      [] v.t = "Array"  -> Val("Array", [i \in 1..Len(v.v) |-> Narrowed(v.v[i])])
      [] v.t = "Struct" -> Val("Struct", [k \in DOMAIN v.v |-> Narrowed(v.v[k])])
      [] OTHER          -> v

\* C1: writing a Value with the Value Writer and reading the text back into
\* a Value gives the Value written, but for an Int64 that fits in 32 bits
\* coming back as an Int.
C1_RoundTrip == Done => (result.ok /\ result.val = Narrowed(value))


(***************************************************************************)
(* Faults (src/src/error.rs).                                              *)
(***************************************************************************)
FaultCodeKey   == <<"f", "a", "u", "l", "t", "C", "o", "d", "e">>
FaultStringKey == <<"f", "a", "u", "l", "t", "S", "t", "r", "i", "n", "g">>

\* struct Fault { fault_code: i32, fault_string: String }
Fault(code, string) == Val("Fault", [fault_code |-> code, fault_string |-> string])

ParseFaultError(msg) == Err("ParseFaultError", "", msg, <<>>)

\* a faulty fault_try_from: the number of fields is not looked at
fault_try_from_any_len(x) ==
    IF x.t # "Struct" THEN Refused(ParseFaultError("expected struct"))
    ELSE IF /\ FaultCodeKey \in DOMAIN x.v
            /\ FaultStringKey \in DOMAIN x.v
            /\ x.v[FaultCodeKey].t = "Int"
            /\ x.v[FaultStringKey].t = "String"
         THEN Visited(Fault(x.v[FaultCodeKey].v, x.v[FaultStringKey].v))
         ELSE Refused(ParseFaultError("missing either faultCode or faultString"))

\* impl TryFrom<Value> for Fault: [ok, val, err]
fault_try_from(x) ==
    IF x.t # "Struct" THEN Refused(ParseFaultError("expected struct"))
    ELSE IF /\ FaultCodeKey \in DOMAIN x.v
            /\ FaultStringKey \in DOMAIN x.v
            /\ x.v[FaultCodeKey].t = "Int"
            /\ x.v[FaultStringKey].t = "String"
         THEN IF Cardinality(DOMAIN x.v) # 2
              THEN Refused(ParseFaultError("extra fields returned in fault"))
              ELSE Visited(Fault(x.v[FaultCodeKey].v, x.v[FaultStringKey].v))
         ELSE Refused(ParseFaultError("missing either faultCode or faultString"))

\* impl From<&Fault> for Value
fault_to_value(f) ==
    Val("Struct", MapInsert(MapInsert(EmptyMap, FaultCodeKey, Val("Int", f.v.fault_code)),
                            FaultStringKey, Val("String", f.v.fault_string)))

(***************************************************************************)
(* response_from_str (src/src/lib.rs).                                     *)
(***************************************************************************)
UnexpectedEvent(p) == Fail(Err("UnexpectedEvent", "", "", <<>>), p)

\* a step that may fail with a tokenizer error: read_to_end(..).map_err(..)?
Skipped(ret, r) == IF r.ok THEN Ok(ret.val, r.pos) ELSE Fail(XmlError, r.pos)

SkipTo(doc, ret, end) == IF ~ret.ok THEN ret ELSE Skipped(ret, read_to_end(doc, ret.pos, end))

\* the loop that looks for <methodResponse>, declarations skipped
RECURSIVE FindEnvelope(_, _, _)

FindEnvelopeOn(doc, name, e) ==
    CASE e.ev.k = "Err"  -> Fail(XmlError, e.pos)
      [] e.ev.k = "Decl" -> FindEnvelope(doc, e.pos, name)
      [] e.ev.k = "Start" /\ e.ev.name = name -> Ok(Nil, e.pos)
      [] OTHER -> UnexpectedEvent(e.pos)

FindEnvelope(doc, p, name) == FindEnvelopeOn(doc, name, read_event(doc, p))

\* expect_tag(value)?; T::deserialize(ValueDeserializer::new(reader)?)?
ReadValueOn(doc, T, e) == IF ~e.ok THEN e ELSE Deserialize(doc, e.pos, T)

ReadValue(doc, T, e) == IF ~e.ok THEN e ELSE ReadValueOn(doc, T, expect_tag(doc, e.pos, "value"))

\* variant: </params> must follow the first <param>
ParamsArmStrict(doc, T, p) ==
    IF ~SkipTo(doc, ReadValue(doc, T, expect_tag(doc, p, "param")), "param").ok
    THEN SkipTo(doc, ReadValue(doc, T, expect_tag(doc, p, "param")), "param")
    ELSE IF read_event(doc, SkipTo(doc, ReadValue(doc, T, expect_tag(doc, p, "param")),
                                   "param").pos).ev.k = "End"
    THEN SkipTo(doc, SkipTo(doc, ReadValue(doc, T, expect_tag(doc, p, "param")), "param"),
                "params")
    ELSE UnexpectedEvent(p)

\* the <params> arm: the value of the first <param>
ParamsArm(doc, T, p) ==
    SkipTo(doc, SkipTo(doc, ReadValue(doc, T, expect_tag(doc, p, "param")), "param"), "params")

\* Fault::deserialize: the struct is read through the value codec and then
\* validated by Fault::try_from
FaultValidated(r, f) == IF f.ok THEN Ok(f.val, r.pos) ELSE Fail(f.err, r.pos)

FaultDeserialize(r) == IF ~r.ok THEN r ELSE FaultValidated(r, fault_try_from(r.val))

\* Err(fault.into())
FaultError(r) ==
    IF ~r.ok THEN r
    ELSE [ok |-> FALSE, val |-> r.val, err |-> Err("Fault", "", "", <<>>), pos |-> r.pos]

\* a faulty FaultArm: the struct of the fault is returned as the response
FaultArmAsValue(doc, p) == SkipTo(doc, ReadValue(doc, TValue, Ok(Nil, p)), "fault")

\* the <fault> arm
FaultArm(doc, p) ==
    FaultError(SkipTo(doc, FaultDeserialize(ReadValue(doc, TValue, Ok(Nil, p))), "fault"))

ResponseArmOn(doc, T, e) ==
    CASE e.ev.k = "Err" -> Fail(XmlError, e.pos)
      [] e.ev.k = "Start" /\ e.ev.name = "params" -> ParamsArm(doc, T, e.pos)
      [] e.ev.k = "Start" /\ e.ev.name = "fault"  -> FaultArm(doc, e.pos)
      [] OTHER -> UnexpectedEvent(e.pos)

ResponseBody(doc, T, env) == IF ~env.ok THEN env ELSE ResponseArmOn(doc, T, read_event(doc, env.pos))

ResponseFromStrIn(reader, T) == ResponseBody(reader, T, FindEnvelope(reader, 0, "methodResponse"))

response_from_str(doc, T) == ResponseFromStrIn(Expand(doc), T)

(***************************************************************************)
(* The state machine of a response: a caller hands the text of a response  *)
(* and a target type to response_from_str (specification SpecResponse).    *)
(***************************************************************************)
FaultMemberValues ==
    { Element("value", Element("int", <<Text(<<"4">>)>>)),
      Element("value", Element("i8", <<Text(IntToString(Num(FALSE, I32Min)))>>)),
      Element("value", Element("string", <<Text(<<"x">>)>>)) }

FaultMemberNames == { FaultCodeKey, FaultStringKey, <<"a">> }

\* the runs of exactly n <member> entries
RECURSIVE FaultMembers(_)
FaultMembers(n) ==
    IF n = 0 THEN { <<>> }
    ELSE { MemberOf(k, x) \o d : k \in FaultMemberNames, x \in FaultMemberValues,
                                 d \in FaultMembers(n - 1) }

FaultValueDocs ==
    { StructOf(m) : m \in UNION { FaultMembers(n) : n \in 0..MaxNodes } }
        \cup { Element("value", Element("int", <<Text(<<"4">>)>>)), <<Empty("value")>> }

ResponseDocs ==
    { Element("methodResponse", Element("fault", d)) : d \in FaultValueDocs }
        \cup { <<Decl>> \o Element("methodResponse", Element("fault", d)) : d \in FaultValueDocs }
        \cup { Element("methodResponse", Element("params", Element("param", d))) :
                    d \in FaultValueDocs }
        \cup { <<Start("methodResponse"), Start("fault")>> \o d : d \in FaultValueDocs }
        \cup { Element("methodResponse", <<Comment>> \o Element("fault", d)) : d \in FaultValueDocs }
        \cup { Element("methodCall", <<>>), <<Text(<<"a">>)>>, <<>>, <<Malformed>>,
               Element("methodResponse", <<>>),
               Element("methodResponse", Element("fault", <<>>)),
               Element("methodResponse", Element("fault", <<Malformed>>)) }

InitResponse ==
    /\ input \in ResponseDocs
    /\ target \in {TValue, TI32}
    /\ value = Nil
    /\ out = <<>>
    /\ result = Idle
    /\ pc = "respond"

ResponseFromStr ==
    /\ pc = "respond"
    /\ result' = response_from_str(input, target)
    /\ pc' = "done"
    /\ UNCHANGED <<input, target, value, out>>

NextResponse == ResponseFromStr

SpecResponse == InitResponse /\ [][NextResponse]_vars

\* the document without the declarations it starts with
RECURSIVE StripDecls(_)
StripDecls(doc) == IF doc # <<>> /\ Head(doc).k = "Decl" THEN StripDecls(Tail(doc)) ELSE doc

\* a <methodResponse> whose first child is <fault>
IsFaultResponse(doc) ==
    /\ Len(StripDecls(doc)) >= 2
    /\ StripDecls(doc)[1] = Start("methodResponse")
    /\ StripDecls(doc)[2] = Start("fault")

\* ... that is <methodResponse><fault><value>..</value></fault></methodResponse>
IsFaultDoc(doc) ==
    /\ IsElement(StripDecls(doc), "methodResponse")
    /\ IsElement(Inner(StripDecls(doc)), "fault")
    /\ IsValueDoc(Inner(Inner(StripDecls(doc))))

FaultValueOf(doc) == Inner(Inner(StripDecls(doc)))

\* a Struct of exactly faultCode, an Int, and faultString, a String
IsFaultStruct(x) ==
    /\ x.t = "Struct"
    /\ DOMAIN x.v = {FaultCodeKey, FaultStringKey}
    /\ x.v[FaultCodeKey].t = "Int"
    /\ x.v[FaultStringKey].t = "String"

\* C11: response_from_str on a <methodResponse> whose first child is <fault>
\* never returns Ok; when the value of the fault reads as a struct of exactly
\* faultCode (an int) and faultString (a string), the error is the Fault
\* carrying that code and string, and otherwise it is a parse or decode error.
C11_FaultDetection ==
    (Done /\ IsFaultResponse(Tokens)) =>
        /\ ~result.ok
        /\ IsFaultDoc(Tokens) =>
            LET r == value_from_str(FaultValueOf(Tokens), TValue)
            IN  IF r.ok /\ IsFaultStruct(r.val)
                THEN /\ result.err.kind = "Fault"
                     /\ result.val = Fault(r.val.v[FaultCodeKey].v, r.val.v[FaultStringKey].v)
                ELSE result.err.kind # "Fault"
        /\ ~IsFaultDoc(Tokens) => result.err.kind # "Fault"

C11_Witness ==
    /\ Done
    /\ input = <<Decl>> \o Element("methodResponse", Element("fault",
                    StructOf(MemberOf(FaultCodeKey, Element("value", Element("int", <<Text(<<"4">>)>>)))
                             \o MemberOf(FaultStringKey,
                                         Element("value", Element("string", <<Text(<<"x">>)>>))))))
    /\ ~result.ok
    /\ result.err.kind = "Fault"
    /\ result.val = Fault(Num(FALSE, <<4>>), <<"x">>)

(***************************************************************************)
(* The state machine of a fault: a caller turns a Fault into a Value       *)
(* (Value::from) or brings a Value of its own, and hands the Value to       *)
(* Fault::try_from (specification SpecFault).  input is what the caller    *)
(* starts from, value the Value handed to Fault::try_from.                 *)
(***************************************************************************)
FaultCodes ==
    { Num(FALSE, <<0>>), Num(FALSE, <<4>>), Num(TRUE, <<1, 2, 3, 4, 5, 6>>),
      Num(FALSE, I32Max), Num(TRUE, I32Min) }

FaultStrings == { <<>>, <<"x">>, <<"a", "<", "b">> }

Faults == { Fault(c, s) : c \in FaultCodes, s \in FaultStrings }

FaultFieldValues ==
    { Val("Int", Num(FALSE, <<4>>)), Val("Int64", Num(FALSE, I32Min)),
      Val("String", <<"x">>), Nil }

\* the Structs over some of the names faultCode, faultString and a
FaultStructs ==
    UNION { { Val("Struct", m) : m \in [keys -> FaultFieldValues] }
            : keys \in SUBSET FaultMemberNames }

FaultCandidates ==
    FaultStructs \cup { Nil, Val("Int", Num(FALSE, <<4>>)), Val("String", FaultCodeKey),
                        Val("Array", <<Val("Int", Num(FALSE, <<4>>)), Val("String", <<"x">>)>>) }

InitFault ==
    /\ \/ input \in Faults /\ value = Nil /\ pc = "fault"
       \/ input \in FaultCandidates /\ value = input /\ pc = "value"
    /\ target = TValue
    /\ out = <<>>
    /\ result = Idle

FaultToValue ==
    /\ pc = "fault"
    /\ value' = fault_to_value(input)
    /\ pc' = "value"
    /\ UNCHANGED <<input, target, out, result>>

FaultTryFrom ==
    /\ pc = "value"
    /\ result' = Visiting(fault_try_from(value), 0)
    /\ pc' = "done"
    /\ UNCHANGED <<input, target, value, out>>

NextFault == FaultToValue \/ FaultTryFrom

SpecFault == InitFault /\ [][NextFault]_vars

\* C12: Fault::try_from(v) is Ok(Fault{code, string}) exactly when v is a
\* Struct of exactly two entries, faultCode an Int and faultString a String;
\* any other Value gives ParseFaultError; and Fault::try_from(Value::from(&f))
\* is f for every Fault f.
C12_FaultValidation ==
    Done =>
        /\ IF IsFaultStruct(value)
           THEN /\ result.ok
                /\ result.val = Fault(value.v[FaultCodeKey].v, value.v[FaultStringKey].v)
           ELSE ~result.ok /\ result.err.kind = "ParseFaultError"
        /\ input \in Faults => (result.ok /\ result.val = input)

C12_Witness ==
    /\ Done
    /\ value = Val("Struct", MapInsert(MapInsert(MapInsert(EmptyMap,
                        FaultCodeKey, Val("Int", Num(FALSE, <<4>>))),
                        FaultStringKey, Val("String", <<"x">>)),
                        <<"a">>, Nil))
    /\ ~result.ok
    /\ result.err.expected = "extra fields returned in fault"

(***************************************************************************)
(* The serde data model.  A value handed to a serializer is the sequence   *)
(* of calls its Serialize impl makes; it is kept as the shape of those     *)
(* calls: Val("i32", n), Val("str", text), Val("some", inner),             *)
(* Val("seq", <<elements>>), Val("map", <<entries>>) with an entry a pair  *)
(* <<key, value>> of two such shapes, Val("struct", <<fields>>) with a     *)
(* field a pair <<name, value>> whose name is a text.                      *)
(***************************************************************************)
KeyMustBeString == Err("KeyMustBeString", "", "", <<>>)
InvalidKeyType == Err("InvalidKeyType", "", "string", <<>>)
\* unimplemented!(): the call does not return
Panicked == Err("panic", "", "not implemented", <<>>)

SignedShapes == {"i8", "i16", "i32", "i64"}
UnsignedShapes == {"u8", "u16", "u32", "u64"}

\* what a call of the Value Writer leaves behind: the tokens it appended to
\* the sink, and the error it returned if it did
Written(toks) == [ok |-> TRUE, out |-> toks, err |-> NoErr]
WriteFailed(toks, e) == [ok |-> FALSE, out |-> toks, err |-> e]
\* a?; b
AndThen(a, b) == IF a.ok THEN [b EXCEPT !.out = a.out \o b.out] ELSE a

\* a faulty serialize_u64: an unsigned integer gets a tag of its own
serialize_u64_tagged(x) ==
    write_start_tag("value") \o write_safe_tag("u8", IntToString(x)) \o write_end_tag("value")
serialize_u64(x) ==
    write_start_tag("value") \o write_safe_tag("int", IntToString(x)) \o write_end_tag("value")

serialize_char(x) ==
    write_start_tag("value") \o write_tag("string", x) \o write_end_tag("value")

\* MapKeySerializer: serialize_str writes the name, every other call is
\* refused before anything is written
key_must_be_a_string == WriteFailed(<<>>, KeyMustBeString)

\* a faulty MapKeySerializer: a char is written as a name too
MapKeySerializerWithChar(key) ==
    IF key.t \in {"str", "char"} THEN Written(write_tag("name", key.v))
    ELSE key_must_be_a_string
MapKeySerializer(key) ==
    IF key.t = "str" THEN Written(write_tag("name", key.v))
    ELSE key_must_be_a_string

\* SerializeMap::serialize_key of the Value Writer
\* a faulty serialize_key_with: the <member> tag is not opened
serialize_key_without_member(key) == MapKeySerializer(key)
serialize_key_with(key) ==
    AndThen(Written(write_start_tag("member")), MapKeySerializer(key))

RECURSIVE Serialize(_)
RECURSIVE SerializeElements(_)
RECURSIVE SerializeEntries(_)
RECURSIVE SerializeFields(_)

\* value.serialize(Serializer::new(&mut writer))
Serialize(x) ==
    CASE x.t = "bool"  -> Written(serialize_bool(x.v))
      [] x.t \in SignedShapes   -> Written(serialize_i64(x.v))
      [] x.t \in UnsignedShapes -> Written(serialize_u64(x.v))
      [] x.t = "f64"   -> Written(serialize_f64(x.v))
      [] x.t = "char"  -> Written(serialize_char(x.v))
      [] x.t = "str"   -> Written(serialize_str(x.v))
      [] x.t = "bytes" -> Written(serialize_bytes(x.v))
      [] x.t = "none"  -> Written(serialize_none)
      [] x.t = "some"  -> Serialize(x.v)
      [] x.t = "unit"  -> Written(serialize_unit)
      [] x.t = "unit_struct" -> Written(serialize_unit)
      [] x.t \in {"seq", "tuple"} ->
            AndThen(AndThen(Written(serialize_seq), SerializeElements(x.v)), Written(seq_end))
      [] x.t = "map" ->
            AndThen(AndThen(Written(serialize_map), SerializeEntries(x.v)), Written(map_end))
      [] x.t = "struct" ->
            AndThen(AndThen(Written(serialize_map), SerializeFields(x.v)), Written(map_end))

\* SerializeSeq::serialize_element for each element
SerializeElements(xs) ==
    IF xs = <<>> THEN Written(<<>>)
    ELSE AndThen(Serialize(Head(xs)), SerializeElements(Tail(xs)))

\* SerializeMap::serialize_entry for each entry
SerializeEntries(es) ==
    IF es = <<>> THEN Written(<<>>)
    ELSE AndThen(AndThen(AndThen(serialize_key_with(Head(es)[1]), Serialize(Head(es)[2])),
                         Written(write_end_tag("member"))),
                 SerializeEntries(Tail(es)))

\* SerializeStruct::serialize_field for each field
SerializeFields(fs) ==
    IF fs = <<>> THEN Written(<<>>)
    ELSE AndThen(AndThen(AndThen(serialize_key_with(Val("str", Head(fs)[1])),
                                 Serialize(Head(fs)[2])),
                         Written(write_end_tag("member"))),
                 SerializeFields(Tail(fs)))

(***************************************************************************)
(* value::Serializer over the same shapes (to_value).                      *)
(***************************************************************************)
vs_serialize_u8(x)  == Val("Int", x)
vs_serialize_u16(x) == Val("Int", x)
vs_serialize_u32(x) == Val("Int64", x)
vs_serialize_u64(x) == Panicked
vs_serialize_char(x) == Val("String", x)
\* Ok(Value::Struct(BTreeMap::new()))
vs_serialize_unit_struct == vs_map_end(EmptyMap)

\* SerializeMap::serialize_key of value::Serializer, given what the key
\* serialized to
vs_serialize_key(k) ==
    IF ~k.ok THEN k
    ELSE IF k.val.t = "String" THEN k
    ELSE Refused(InvalidKeyType)

RECURSIVE to_value(_)
RECURSIVE ToValueElements(_, _)
RECURSIVE ToValueEntries(_, _)
RECURSIVE ToValueFields(_, _)

ToValuePush(xs, vec, r) ==
    IF ~r.ok THEN r ELSE ToValueElements(Tail(xs), Append(vec, r.val))

ToValueInsert(es, map, key, r) ==
    IF ~r.ok THEN r ELSE ToValueEntries(Tail(es), vs_map_insert(map, key, r.val))

ToValueEntry(es, map, k) ==
    IF ~k.ok THEN k ELSE ToValueInsert(es, map, k.val.v, to_value(Head(es)[2]))

ToValueField(fs, map, r) ==
    IF ~r.ok THEN r ELSE ToValueFields(Tail(fs), vs_map_insert(map, Head(fs)[1], r.val))

to_value(x) ==
    CASE x.t = "bool"  -> Visited(vs_serialize_bool(x.v))
      [] x.t = "i8"    -> Visited(vs_serialize_i8(x.v))
      [] x.t = "i16"   -> Visited(vs_serialize_i16(x.v))
      [] x.t = "i32"   -> Visited(vs_serialize_i32(x.v))
      [] x.t = "i64"   -> Visited(vs_serialize_i64(x.v))
      [] x.t = "u8"    -> Visited(vs_serialize_u8(x.v))
      [] x.t = "u16"   -> Visited(vs_serialize_u16(x.v))
      [] x.t = "u32"   -> Visited(vs_serialize_u32(x.v))
      [] x.t = "u64"   -> Refused(vs_serialize_u64(x.v))
      [] x.t = "f64"   -> Visited(vs_serialize_f64(x.v))
      [] x.t = "char"  -> Visited(vs_serialize_char(x.v))
      [] x.t = "str"   -> Visited(vs_serialize_str(x.v))
      [] x.t = "bytes" -> Visited(vs_serialize_bytes(x.v))
      [] x.t = "none"  -> Visited(vs_serialize_none)
      [] x.t = "some"  -> to_value(x.v)
      [] x.t = "unit"  -> Visited(vs_serialize_unit)
      [] x.t = "unit_struct" -> Visited(vs_serialize_unit_struct)
      [] x.t \in {"seq", "tuple"} -> ToValueElements(x.v, <<>>)
      [] x.t = "map"    -> ToValueEntries(x.v, EmptyMap)
      [] x.t = "struct" -> ToValueFields(x.v, EmptyMap)

ToValueElements(xs, vec) ==
    IF xs = <<>> THEN Visited(vs_seq_end(vec))
    ELSE ToValuePush(xs, vec, to_value(Head(xs)))

ToValueEntries(es, map) ==
    IF es = <<>> THEN Visited(vs_map_end(map))
    ELSE ToValueEntry(es, map, vs_serialize_key(to_value(Head(es)[1])))

ToValueFields(fs, map) ==
    IF fs = <<>> THEN Visited(vs_map_end(map))
    ELSE ToValueField(fs, map, to_value(Head(fs)[2]))

(***************************************************************************)
(* Values handed to value_to_string and to_value.                          *)
(***************************************************************************)
U64Max == <<1, 8, 4, 4, 6, 7, 4, 4, 0, 7, 3, 7, 0, 9, 5, 5, 1, 6, 1, 5>>

SerScalars ==
    { Val("bool", b) : b \in BOOLEAN }
        \cup { Val("i8", Num(TRUE, <<1>>)), Val("i16", Num(FALSE, <<3, 0, 0>>)),
               Val("i32", Num(FALSE, <<1>>)), Val("i32", Num(TRUE, I32Min)),
               Val("i64", Num(FALSE, I64Max)), Val("i64", Num(TRUE, I64Min)) }
        \cup { Val("u8", Num(FALSE, <<7>>)), Val("u16", Num(FALSE, <<3, 0, 0>>)),
               Val("u32", Num(FALSE, <<4, 2, 9, 4, 9, 6, 7, 2, 9, 5>>)) }
        \cup { Val("u64", Num(FALSE, m)) : m \in {<<0>>, I64Max, I64Min, U64Max} }
        \cup { Val("f64", F64(FALSE, <<1>>, <<5>>)), Val("f64", F64(TRUE, <<2>>, <<>>)) }
        \cup { Val("char", c) : c \in {<<"a">>, <<"<">>} }
        \cup { Val("str", s) : s \in {<<>>, <<"a">>, <<"b">>, <<"a", "&", "b">>} }
        \cup { Val("bytes", b) : b \in {<<>>, <<1, 2, 3>>} }
        \cup { Val("none", <<>>), Val("unit", <<>>) }

SerCore ==
    { Val("i32", Num(FALSE, <<1>>)), Val("str", <<"a">>), Val("none", <<>>),
      Val("seq", <<Val("bool", TRUE)>>),
      Val("map", << <<Val("str", <<"b">>), Val("i32", Num(FALSE, <<1>>))>> >>) }

\* the keys of the maps: texts, other scalars, and the shapes that are not
\* scalars
SerKeys ==
    { Val("str", s) : s \in {<<"a">>, <<"b">>, <<"<">>} }
        \cup { Val("char", <<"a">>), Val("bool", TRUE), Val("i32", Num(FALSE, <<1>>)),
               Val("i64", Num(TRUE, <<5>>)), Val("u8", Num(FALSE, <<7>>)),
               Val("f64", F64(FALSE, <<1>>, <<5>>)), Val("bytes", <<1>>) }
        \cup { Val("none", <<>>), Val("unit", <<>>),
               Val("some", Val("str", <<"a">>)), Val("some", Val("i32", Num(FALSE, <<1>>))),
               Val("seq", <<>>), Val("seq", <<Val("str", <<"a">>)>>),
               Val("tuple", <<Val("str", <<"a">>), Val("str", <<"b">>)>>),
               Val("map", <<>>),
               Val("struct", << <<(<<"a">>), Val("str", <<"b">>)>> >>) }

SerSources ==
    SerScalars
        \cup { Val("some", x) : x \in SerScalars }
        \cup { Val("some", Val("some", x)) : x \in SerCore }
        \cup { Val(k, <<>>) : k \in {"seq", "tuple", "map", "struct"} }
        \cup { Val("seq", <<x>>) : x \in SerScalars }
        \cup { Val(k, <<x, y>>) : k \in {"seq", "tuple"}, x \in SerCore, y \in SerCore }
        \cup { Val("map", << <<k, x>> >>) : k \in SerKeys, x \in SerCore }
        \cup { Val("map", << <<j, Val("bool", FALSE)>>, <<k, x>> >>) :
                 j \in {Val("str", <<"a">>), Val("str", <<"c">>)}, k \in SerKeys,
                 x \in {Val("i32", Num(FALSE, <<1>>)), Val("seq", <<Val("unit", <<>>)>>)} }
        \cup { Val("struct", << <<n, x>> >>) : n \in {<<"a">>, <<"<">>}, x \in SerScalars }
        \cup { Val("struct", << <<(<<"a">>), x>>, <<(<<"b">>), y>> >>) :
                 x \in SerCore, y \in SerCore }
        \cup { Val("unit_struct", <<>>), Val("some", Val("unit_struct", <<>>)),
               Val("seq", <<Val("unit_struct", <<>>), Val("unit", <<>>)>>),
               Val("struct", << <<(<<"b">>), Val("unit_struct", <<>>)>>,
                                <<(<<"a">>), Val("i32", Num(FALSE, <<1>>))>> >>) }

(***************************************************************************)
(* The state machine of the two serializers: a value is handed either to   *)
(* value_to_string, which runs the Value Writer on an empty sink, or to    *)
(* to_value.                                                               *)
(***************************************************************************)
InitSerialize ==
    /\ value \in SerSources
    /\ input = <<>>
    /\ target = TValue
    /\ out = <<>>
    /\ result = Idle
    /\ pc = "serialize"

WriterOutcome(r) == IF r.ok THEN Ok(Nil, 0) ELSE Fail(r.err, 0)

value_to_string ==
    /\ pc = "serialize"
    /\ \E r \in {Serialize(value)} :
          /\ out' = r.out
          /\ result' = WriterOutcome(r)
    /\ pc' = "written"
    /\ UNCHANGED <<input, target, value>>

ToValue ==
    /\ pc = "serialize"
    /\ result' = Visiting(to_value(value), 0)
    /\ pc' = "converted"
    /\ UNCHANGED <<input, target, value, out>>

NextSerialize == value_to_string \/ ToValue

SpecSerialize == InitSerialize /\ [][NextSerialize]_vars

(***************************************************************************)
(* Properties of the serializers.                                          *)
(***************************************************************************)
IsMapSource == value.t = "map"

\* the shapes of a key that are no scalar: containers, options and units
NonScalarShapes == {"seq", "tuple", "map", "struct", "some", "none", "unit"}

\* the map's keys are texts but for some that are no scalars
HasNonScalarKey ==
    /\ IsMapSource
    /\ \E i \in 1..Len(value.v) : value.v[i][1].t \in NonScalarShapes
    /\ \A i \in 1..Len(value.v) : value.v[i][1].t \in NonScalarShapes \cup {"str"}

\* the sink ends right after the <member> of the refused key
EndsAtMember == out # <<>> /\ out[Len(out)] = Start("member")

\* C13: serializing a map one of whose keys is a sequence, a tuple, a map, a
\* struct, an option or a unit fails with the key-type error: KeyMustBeString
\* from the Value Writer, which has emitted no <name> for that key (the sink
\* ends with the <member> it opened), and InvalidKeyType from to_value.
C13_NonScalarKeysRefused ==
    HasNonScalarKey =>
        /\ pc = "written" =>
              ~result.ok /\ result.err.kind = "KeyMustBeString" /\ EndsAtMember
        /\ pc = "converted" => ~result.ok /\ result.err.kind = "InvalidKeyType"

\* the half of C13 that is about the Value Writer
C13_WriterRefuses ==
    HasNonScalarKey /\ pc = "written" =>
        ~result.ok /\ result.err.kind = "KeyMustBeString" /\ EndsAtMember

C13_WriterWitness ==
    /\ HasNonScalarKey /\ pc = "written"
    /\ Len(value.v) = 2 /\ value.v[2][1].t = "some"
    /\ out[Len(out) - 1] = End("member")

\* the text a scalar key would be written as, were it coerced
KeyText(key) ==
    CASE key.t \in {"str", "char"} -> key.v
      [] key.t \in SignedShapes \cup UnsignedShapes -> IntToString(key.v)
      [] key.t = "f64"  -> F64ToString(key.v)
      [] key.t = "bool" -> IF key.v THEN <<"1">> ELSE <<"0">>

ScalarKeyShapes == {"str", "char", "f64", "bool"} \cup SignedShapes \cup UnsignedShapes

FirstKey == value.v[1][1]

\* what the sink holds when the first key of a map has been written as a name
FirstNameWritten(text) ==
    /\ Len(out) >= 6
    /\ SubSeq(out, 1, 6)
          = <<Start("value"), Start("struct"), Start("member"),
              Start("name"), Text(Escape(text)), End("name")>>

\* the first key of a map has been refused: nothing follows its <member>
FirstKeyRefused ==
    /\ ~result.ok
    /\ result.err.kind = "KeyMustBeString"
    /\ out = <<Start("value"), Start("struct"), Start("member")>>

IntTextsWritten ==
    { out[i + 1].text : i \in { j \in 1..(Len(out) - 1) :
                                   out[j] = Start("int") /\ out[j + 1].k = "Text" } }

IsWideU64(x) == x.t = "u64" /\ ~InI64(x.v)

\* C15: an unsigned 64-bit value above 2^63 - 1 is refused by the Value
\* Writer with an error and no <int> is emitted for it, so that every <int>
\* text the writer emits is one the reader's signed 64-bit parse accepts.
C15_WideU64Refused ==
    pc = "written" =>
        /\ IsWideU64(value) => ~result.ok /\ out = <<>>
        /\ \A s \in IntTextsWritten : ParseI64(s).ok

\* the value inside any number of some(...)
RECURSIVE StripSome(_)
StripSome(x) == IF x.t = "some" THEN StripSome(x.v) ELSE x

\* <value><TAG>TEXT</TAG></value>
ScalarTree(tag, text) ==
    <<Start("value"), Start(tag), Text(text), End(tag), End("value")>>

NilTree == <<Start("value"), Empty("nil"), End("value")>>

TableShapes ==
    {"bool", "char", "str", "bytes", "none", "unit"} \cup SignedShapes \cup UnsignedShapes

\* the row of the scalar table for a value
TableRow(x) ==
    CASE x.t = "bool" -> ScalarTree("boolean", IF x.v THEN <<"1">> ELSE <<"0">>)
      [] x.t \in SignedShapes \cup UnsignedShapes -> ScalarTree("int", IntToString(x.v))
      [] x.t \in {"char", "str"} -> ScalarTree("string", Escape(x.v))
      [] x.t = "bytes" -> ScalarTree("base64", Base64Encode(x.v))
      [] x.t \in {"none", "unit", "unit_struct"} -> NilTree

\* C16: every scalar call of the Value Writer succeeds and emits exactly
\* <value><TAG>TEXT</TAG></value>: a boolean under boolean as 1 or 0, an
\* integer of any width, signed or unsigned, under int as its decimal text,
\* a char and a string under string (escaped), bytes under base64; none and
\* unit emit <value><nil/></value>; some(inner) emits exactly what inner
\* alone emits.
C16_ScalarTable ==
    pc = "written" /\ StripSome(value).t \in TableShapes =>
        result.ok /\ out = TableRow(StripSome(value))

C16_Witness ==
    /\ pc = "written" /\ result.ok
    /\ value.t = "some" /\ value.v.t = "u32"
    /\ out = ScalarTree("int", <<"4", "2", "9", "4", "9", "6", "7", "2", "9", "5">>)

\* the document is the tree the writer is to emit for a value: an array of
\* the trees of its elements in order, a struct of one member per entry in
\* order with the key as its name and the tree of the entry's value, or the
\* tree of a scalar
RECURSIVE IsTreeOf(_, _)
IsTreeOf(doc, x) ==
    CASE x.t = "some" -> IsTreeOf(doc, x.v)
      [] x.t \in {"seq", "tuple"} ->
            /\ IsArrayDoc(doc)
            /\ Len(ArrayChildren(doc)) = Len(x.v)
            /\ \A i \in 1..Len(x.v) : IsTreeOf(ArrayChildren(doc)[i], x.v[i])
      [] x.t = "map" ->
            /\ IsStructDoc(doc)
            /\ Len(StructMembers(doc)) = Len(x.v)
            /\ \A i \in 1..Len(x.v) :
                  /\ x.v[i][1].t = "str"
                  /\ MemberNameOf(StructMembers(doc)[i]) = Escape(x.v[i][1].v)
                  /\ IsTreeOf(MemberValueOf(StructMembers(doc)[i]), x.v[i][2])
      [] x.t = "struct" ->
            /\ IsStructDoc(doc)
            /\ Len(StructMembers(doc)) = Len(x.v)
            /\ \A i \in 1..Len(x.v) :
                  /\ MemberNameOf(StructMembers(doc)[i]) = Escape(x.v[i][1])
                  /\ IsTreeOf(MemberValueOf(StructMembers(doc)[i]), x.v[i][2])
      [] x.t = "f64" -> IsScalarDoc(doc, "double")
      [] OTHER -> doc = TableRow(x)

\* C17: a write that succeeds has emitted exactly one <value>...</value>
\* tree, properly nested: for a sequence <value><array><data>, one full value
\* tree per element in order, </data></array></value>; for a map
\* <value><struct>, per entry in order <member><name>KEY</name>, the value
\* tree of the entry, </member>, then </struct></value>.
C17_WellFormedTree ==
    pc = "written" /\ result.ok => IsValueDoc(out) /\ IsTreeOf(out, value)

C17_Witness ==
    /\ pc = "written" /\ result.ok
    /\ value.t = "map" /\ Len(value.v) = 2 /\ value.v[2][2].t = "seq"
    /\ IsStructDoc(out) /\ Len(StructMembers(out)) = 2
    /\ IsArrayDoc(MemberValueOf(StructMembers(out)[2]))

(***************************************************************************)
(* The state machine of a write, a read of the text written and a second   *)
(* write of the value read, for strings that hold markup characters.       *)
(***************************************************************************)
MarkupChars == {"a", "<", "&", "\"", "é"}

MarkupTexts ==
    { <<>> } \cup { <<c>> : c \in MarkupChars }
        \cup { <<c, d>> : c \in MarkupChars, d \in MarkupChars }

InitRewrite ==
    /\ value \in { Val("String", s) : s \in MarkupTexts }
    /\ input = <<>>
    /\ target = TValue
    /\ out = <<>>
    /\ result = Idle
    /\ pc = "write"

\* the value read is written to an empty sink; input still holds the first
\* write
WriteAgain ==
    /\ pc = "done"
    /\ result.ok
    /\ out' = transcode_value(result.val)
    /\ pc' = "rewritten"
    /\ UNCHANGED <<input, target, value, result>>

NextRewrite == WriteValue \/ ReadBack \/ ValueFromStr \/ WriteAgain

SpecRewrite == InitRewrite /\ [][NextRewrite]_vars

HasMarkup(s) == \E i \in 1..Len(s) : s[i] \in {"<", "&", "\"", "é"}

\* C18: a string holding <, &, " or a character outside ASCII, once written,
\* read back and written again, gives a second output identical to the
\* first, the string read back being the original.
C18_EscapingIdempotent ==
    pc = "rewritten" /\ HasMarkup(value.v) => out = input /\ result.val = value

(***************************************************************************)
(* Properties of the errors of a read (specification Spec).                *)
(***************************************************************************)
KnownValueTags ==
    {"int", "i4", "i8", "boolean", "string", "double", "dateTime.iso8601", "base64",
     "struct", "array", "nil"}

ExpectedValueTags ==
    "one of int|i4|i8|boolean|string|double|dateTime.iso8601|base64|struct|array|nil"

\* the tokens after the <value> the reader fails in: the document's own
\* <value>, or the first element of the array it holds
AfterValueTag ==
    IF Len(Tokens) >= 4 /\ SubSeq(Tokens, 1, 4)
            = <<Start("value"), Start("array"), Start("data"), Start("value")>>
    THEN SubSeq(Tokens, 5, Len(Tokens))
    ELSE IF Tokens # <<>> /\ Tokens[1] = Start("value") THEN Tail(Tokens)
    ELSE <<Text(<<"-">>)>>

ReadsAnyValue == target \in {TValue, TTrace}

Failed(kind, found, expected) ==
    /\ ~result.ok
    /\ ErrKind(result.err) = kind
    /\ result.err.found = found
    /\ result.err.expected = expected

\* C19: when the first event inside <value> is a start tag outside the known
\* set the read fails with UnexpectedTag carrying the tag found and the
\* message of the expected set; at the end of the input it fails with
\* UnexpectedEOF carrying that message; on any other event (a comment, a
\* CDATA section) with UnexpectedEvent carrying it; on a tokenizer error with
\* that error wrapped.  No value is delivered in any of these cases.
C19_ErrorTaxonomy ==
    Done /\ ReadsAnyValue =>
        /\ (AfterValueTag # <<>> /\ Head(AfterValueTag).k = "Start"
                /\ Head(AfterValueTag).name \notin KnownValueTags) =>
              Failed("UnexpectedTag", Head(AfterValueTag).name, ExpectedValueTags)
        /\ AfterValueTag = <<>> => Failed("UnexpectedEOF", "", ExpectedValueTags)
        /\ (AfterValueTag # <<>> /\ Head(AfterValueTag).k \in {"Comment", "CData"}) =>
              Failed("UnexpectedEvent", "", ExpectedValueTags)
        /\ (AfterValueTag # <<>> /\ Head(AfterValueTag).k = "Malformed") =>
              ~result.ok /\ ErrKind(result.err) = "XmlError"

C19_Witness ==
    /\ Done /\ target = TValue
    /\ Tokens = <<Start("value"), Start("array"), Start("data"), Start("value")>>
    /\ Failed("UnexpectedEOF", "", ExpectedValueTags)

C19_WitnessTag ==
    /\ Done /\ target = TTrace
    /\ AfterValueTag # <<>> /\ Head(AfterValueTag) = Start("foo")
    /\ Failed("UnexpectedTag", "foo", ExpectedValueTags)

(***************************************************************************)
(* The state machine of expect_tag alone: a reader at the start of a run   *)
(* of events is asked for a start tag of a given name.                     *)
(***************************************************************************)
ExpectedNames == {"value", "param", "data"}

\* the event the reader meets after the declarations, if any
ExpectEvents ==
    { <<Start(n)>> : n \in ExpectedNames }
        \cup { <<Empty("value")>>, <<End("value")>>, <<Text(<<"x">>)>>,
               <<Comment>>, <<CData>>, <<Malformed>>, <<>> }

ExpectDocs ==
    { decls \o e \o more :
        decls \in {<<>>, <<Decl>>, <<Decl, Decl>>},
        e \in ExpectEvents,
        more \in {<<>>, <<Text(<<"y">>)>>} }

InitExpect ==
    /\ input \in ExpectDocs
    /\ \E n \in ExpectedNames : value = Val("Tag", n)
    /\ target = TValue
    /\ out = <<>>
    /\ result = Idle
    /\ pc = "expect"

ExpectTag ==
    /\ pc = "expect"
    /\ result' = expect_tag(Expand(input), 0, value.v)
    /\ pc' = "done"
    /\ UNCHANGED <<input, target, value, out>>

NextExpect == ExpectTag

SpecExpect == InitExpect /\ [][NextExpect]_vars

RECURSIVE LeadingDecls(_)
LeadingDecls(run) ==
    IF run # <<>> /\ Head(run) = Decl THEN 1 + LeadingDecls(Tail(run)) ELSE 0

\* the tokens after the leading declarations
AfterDecls == SubSeq(Tokens, LeadingDecls(Tokens) + 1, Len(Tokens))

\* C20: expect_tag(name) skips the leading declarations and succeeds exactly
\* when the next event is a start tag named name, with the cursor right
\* after that tag; on a start tag of another name it fails with
\* UnexpectedTag(found, name); on any other event that is no declaration (a
\* text, an end tag, the end of the input) with UnexpectedEvent(name); on a
\* tokenizer error with an error that names the expected tag.
C20_ExpectTag ==
    pc = "done" /\ value.t = "Tag" =>
        /\ result.ok <=> (AfterDecls # <<>> /\ Head(AfterDecls) = Start(value.v))
        /\ result.ok => result.pos = LeadingDecls(Tokens) + 1
        /\ (AfterDecls # <<>> /\ Head(AfterDecls).k = "Start"
                /\ Head(AfterDecls).name # value.v) =>
              Failed("UnexpectedTag", Head(AfterDecls).name, value.v)
        /\ (AfterDecls = <<>> \/ Head(AfterDecls).k \in {"Text", "End", "Comment", "CData"}) =>
              Failed("UnexpectedEvent", "", value.v)
        /\ (AfterDecls # <<>> /\ Head(AfterDecls).k = "Malformed") =>
              ~result.ok /\ result.err.expected = value.v

C20_Witness ==
    /\ pc = "done" /\ value = Val("Tag", "param")
    /\ Tokens = <<Decl, Decl, Start("param"), Text(<<"y">>)>>
    /\ result.ok /\ result.pos = 3

C20_WitnessOther ==
    /\ pc = "done" /\ value = Val("Tag", "data")
    /\ Tokens = <<Decl, Start("value"), End("value")>>
    /\ Failed("UnexpectedTag", "value", "data")

(***************************************************************************)
(* request_from_str (src/src/lib.rs): the method name and the parameters,  *)
(* each read into a Value, of a <methodCall>.                              *)
(***************************************************************************)
\* (method_name, params)
Call(name, params) == Val("Call", [method_name |-> name, params |-> params])

RECURSIVE ParamsLoop(_, _, _, _)

\* variant: the values are collected in reverse
ParamReadReversed(doc, name, params, r) ==
    IF ~r.ok THEN r ELSE ParamsLoop(doc, r.pos, name, <<r.val>> \o params)

\* params.push(x); read_to_end(param)?; continue
ParamRead(doc, name, params, r) ==
    IF ~r.ok THEN r ELSE ParamsLoop(doc, r.pos, name, Append(params, r.val))

\* one turn of the loop over the children of <params>
ParamsLoopOn(doc, name, params, e) ==
    CASE e.ev.k = "Err" -> Fail(XmlError, e.pos)
      [] e.ev.k = "Start" /\ e.ev.name = "param" ->
            ParamRead(doc, name, params,
                      SkipTo(doc, ReadValue(doc, TValue, Ok(Nil, e.pos)), "param"))
      [] e.ev.k = "End" /\ e.ev.name = "params" -> Ok(Call(name, params), e.pos)
      [] OTHER -> UnexpectedEvent(e.pos)

ParamsLoop(doc, p, name, params) == ParamsLoopOn(doc, name, params, read_event(doc, p))

\* the event after </methodName>
RequestParamsOn(doc, name, e) ==
    CASE e.ev.k = "Err" -> Fail(XmlError, e.pos)
      [] e.ev.k = "Start" /\ e.ev.name = "params" -> ParamsLoop(doc, e.pos, name, <<>>)
      [] OTHER -> UnexpectedEvent(e.pos)

MethodNameText(doc, x) ==
    IF ~x.ok THEN Fail(XmlError, x.pos)
    ELSE RequestParamsOn(doc, x.text, read_event(doc, x.pos))

\* the event after <methodCall>
MethodNameOn(doc, e) ==
    CASE e.ev.k = "Err" -> Fail(XmlError, e.pos)
      [] e.ev.k = "Start" /\ e.ev.name = "methodName" ->
            MethodNameText(doc, read_text(doc, e.pos, "methodName"))
      [] OTHER -> UnexpectedEvent(e.pos)

RequestBody(doc, env) == IF ~env.ok THEN env ELSE MethodNameOn(doc, read_event(doc, env.pos))

RequestFromStrIn(reader) == RequestBody(reader, FindEnvelope(reader, 0, "methodCall"))

request_from_str(doc) == RequestFromStrIn(Expand(doc))

(***************************************************************************)
(* Documents whose values fail somewhere inside, and the state machine of  *)
(* the three entry points of the reader (specification SpecEntry).         *)
(***************************************************************************)
GoodLeaf == Element("value", Element("int", <<Text(<<"1">>)>>))

\* a value that reads, and values that fail each in its own way
Leaves ==
    { GoodLeaf,
      Element("value", Element("boolean", <<Text(<<"2">>)>>)),
      Element("value", Element("int", <<Text(<<"x">>)>>)),
      Element("value", Element("foo", <<>>)) }

\* arrays and structs of one or two of the values given
Nest(vals, firsts) ==
    { ArrayOf(x) : x \in vals }
        \cup { ArrayOf(x \o y) : x \in firsts, y \in vals }
        \cup { StructOf(MemberOf(<<"a">>, x)) : x \in vals }
        \cup { StructOf(MemberOf(<<"a">>, x) \o MemberOf(<<"b">>, y)) : x \in firsts, y \in vals }

NestedOnce == Nest(Leaves, Leaves)

NestedTwice == Nest(NestedOnce, {GoodLeaf})

\* every text that ends early in one of a few documents
Prefixes(doc) == { SubSeq(doc, 1, n) : n \in 0..Len(doc) }

TruncatedNested ==
    UNION { Prefixes(d) :
              d \in { StructOf(MemberOf(<<"a">>, ArrayOf(GoodLeaf))),
                      ArrayOf(StructOf(MemberOf(<<"a">>, GoodLeaf))) } }

EntryValueDocs == Leaves \cup NestedOnce \cup NestedTwice \cup TruncatedNested

ParamOf(x) == Element("param", x)

RequestOf(name, params) ==
    Element("methodCall", Element("methodName", TextBody(name)) \o Element("params", params))

ResponseOf(params) == Element("methodResponse", Element("params", params))

ParamValues == Leaves \cup { ArrayOf(GoodLeaf \o x) : x \in Leaves }
                      \cup { StructOf(MemberOf(<<"a">>, x)) : x \in Leaves }

\* the runs of at most two <param> children
ParamRuns ==
    { <<>> } \cup { ParamOf(x) : x \in ParamValues }
        \cup { ParamOf(x) \o ParamOf(y) : x \in ParamValues, y \in ParamValues }

\* envelopes that are not a <methodCall> of a <methodName> and a <params> of
\* <param> children
BrokenRequestDocs ==
    { ResponseOf(ParamOf(GoodLeaf)), <<Text(<<"x">>)>>, <<Comment>>, <<Malformed>>,
      <<Decl, Decl>> \o RequestOf(<<"m">>, ParamOf(GoodLeaf)),
      Element("methodCall", Element("params", ParamOf(GoodLeaf))
                                \o Element("methodName", <<Text(<<"m">>)>>)),
      Element("methodCall", <<Text(<<"x">>)>> \o Element("methodName", <<Text(<<"m">>)>>)
                                \o Element("params", <<>>)),
      Element("methodCall", Element("methodName", <<Text(<<"m">>)>>)),
      Element("methodCall", <<Malformed>>) }
        \cup { Element("methodCall", Element("methodName", <<Text(<<"m">>)>>) \o x
                                        \o Element("params", ParamOf(GoodLeaf))) :
                  x \in { <<Text(<<"x">>)>>, <<Comment>>, Element("foo", <<>>), <<Malformed>> } }
        \cup { RequestOf(<<"m">>, ps \o x \o qs) :
                  ps \in {<<>>, ParamOf(GoodLeaf)}, qs \in {<<>>, ParamOf(GoodLeaf)},
                  x \in { <<Text(<<"x">>)>>, <<Comment>>, <<CData>>, GoodLeaf, Element("foo", <<>>),
                          <<Malformed>>, Element("param", <<>>),
                          ParamOf(GoodLeaf \o GoodLeaf) } }

EntryRequestDocs ==
    { RequestOf(n, ps) : n \in {<<"m">>, <<>>, <<"a", "&", "l", "t", ";">>}, ps \in ParamRuns }
        \cup UNION { Prefixes(RequestOf(<<"m">>, ParamOf(GoodLeaf) \o ParamOf(GoodLeaf))) }
        \cup BrokenRequestDocs

EntryResponseDocs ==
    { ResponseOf(ps) : ps \in ParamRuns }
        \cup UNION { Prefixes(ResponseOf(ParamOf(GoodLeaf))) }

TCall == Ty("Call", <<>>)        \* (String, Vec<Value>)

InitEntry ==
    /\ \/ input \in EntryValueDocs /\ target \in {TValue, TTrace} /\ pc = "read"
       \/ input \in EntryResponseDocs /\ target \in {TValue, TTrace} /\ pc = "respond"
       \/ input \in EntryRequestDocs /\ target = TCall /\ pc = "request"
    /\ value = Val("Entry", pc)
    /\ out = <<>>
    /\ result = Idle

RequestFromStr ==
    /\ pc = "request"
    /\ result' = request_from_str(input)
    /\ pc' = "done"
    /\ UNCHANGED <<input, target, value, out>>

NextEntry == ValueFromStr \/ ResponseFromStr \/ RequestFromStr

SpecEntry == InitEntry /\ [][NextEntry]_vars

(***************************************************************************)
(* Properties of the entry points (specification SpecEntry).               *)
(***************************************************************************)
EntryIs(name) == pc = "done" /\ value = Val("Entry", name)

\* the same error, also after serde passed it on as a message
SameError(a, b) ==
    /\ ErrKind(a) = ErrKind(b)
    /\ a.found = b.found
    /\ a.expected = b.expected
    /\ a.text = b.text

\* the first failure, in document order, among the values a well nested
\* document holds at any depth, each read alone; a success if there is none
RECURSIVE FirstFailure(_, _)
RECURSIVE FirstFailureOf(_, _)

FirstFailure(doc, T) ==
    IF IsArrayDoc(doc) THEN FirstFailureOf(ArrayChildren(doc), T)
    ELSE IF IsStructDoc(doc)
    THEN FirstFailureOf([i \in 1..Len(StructMembers(doc)) |->
                            MemberValueOf(StructMembers(doc)[i])], T)
    ELSE value_from_str(doc, T)

FirstFailureOf(docs, T) ==
    IF docs = <<>> THEN Idle
    ELSE IF ~FirstFailure(Head(docs), T).ok THEN FirstFailure(Head(docs), T)
    ELSE FirstFailureOf(Tail(docs), T)

\* the tokens lead from the start of a value into its first nested value,
\* through arrays and the first members of structs
RECURSIVE IsDescent(_)
IsDescent(run) ==
    \/ run = <<>>
    \/ /\ Len(run) >= 3
       /\ SubSeq(run, 1, 3) = <<Start("value"), Start("array"), Start("data")>>
       /\ IsDescent(SubSeq(run, 4, Len(run)))
    \/ /\ Len(run) >= 6
       /\ SubSeq(run, 1, 4) = <<Start("value"), Start("struct"), Start("member"), Start("name")>>
       /\ run[5].k = "Text"
       /\ run[6] = End("name")
       /\ IsDescent(SubSeq(run, 7, Len(run)))

\* where the first nested values of the document start, whole or cut short
NestedStarts ==
    { k \in 2..Len(Tokens) : Tokens[k] = Start("value") /\ IsDescent(SubSeq(Tokens, 1, k - 1)) }

\* the values of the <param> children of a well nested envelope
IsEnvelope(doc, name, lead) ==
    /\ IsElement(doc, name)
    /\ OnlyElements(Inner(doc))
    /\ Len(ChildElements(Inner(doc))) = lead + 1
    /\ IsElement(ChildElements(Inner(doc))[lead + 1], "params")
    /\ OnlyElements(Inner(ChildElements(Inner(doc))[lead + 1]))
    /\ \A i \in 1..Len(ChildElements(Inner(ChildElements(Inner(doc))[lead + 1]))) :
          /\ IsElement(ChildElements(Inner(ChildElements(Inner(doc))[lead + 1]))[i], "param")
          /\ IsValueDoc(Inner(ChildElements(Inner(ChildElements(Inner(doc))[lead + 1]))[i]))

ParamValuesOf(doc, lead) ==
    [i \in 1..Len(ChildElements(Inner(ChildElements(Inner(doc))[lead + 1]))) |->
        Inner(ChildElements(Inner(ChildElements(Inner(doc))[lead + 1]))[i])]

IsRequestDoc(doc) ==
    IsEnvelope(doc, "methodCall", 1) /\ IsElement(ChildElements(Inner(doc))[1], "methodName")

IsResponseDoc(doc) == IsEnvelope(doc, "methodResponse", 0)

\* the outer read fails with the failure f of a nested value
FailsWith(f) == ~result.ok /\ SameError(result.err, f.err)

\* C21, well nested values: the first nested value that fails, at any depth,
\* makes value_from_str fail with its error.
C21_NestedValues ==
    EntryIs("read") /\ IsValueDoc(Tokens) =>
        IF FirstFailure(Tokens, target).ok THEN result.ok
        ELSE FailsWith(FirstFailure(Tokens, target))

\* C21, envelopes: a parameter whose value fails makes request_from_str and
\* response_from_str fail with its error, and a request whose parameters
\* all read returns as many values as it has parameters.
C21_Envelopes ==
    /\ EntryIs("request") /\ IsRequestDoc(Tokens) =>
          IF FirstFailureOf(ParamValuesOf(Tokens, 1), TValue).ok
          THEN result.ok /\ Len(result.val.v.params) = Len(ParamValuesOf(Tokens, 1))
          ELSE FailsWith(FirstFailureOf(ParamValuesOf(Tokens, 1), TValue))
    /\ EntryIs("respond") /\ IsResponseDoc(Tokens) /\ ParamValuesOf(Tokens, 0) # <<>> =>
          IF FirstFailure(ParamValuesOf(Tokens, 0)[1], target).ok THEN result.ok
          ELSE FailsWith(FirstFailure(ParamValuesOf(Tokens, 0)[1], target))

\* C21, values cut short: a first nested value that fails, the document
\* ending inside it or not, makes value_from_str fail with its error.
C21_FirstNested ==
    EntryIs("read") =>
        \A k \in NestedStarts :
            ~value_from_str(SubSeq(Tokens, k, Len(Tokens)), target).ok =>
                FailsWith(value_from_str(SubSeq(Tokens, k, Len(Tokens)), target))

\* C21: if reading a nested value (an element of an array or the value of a
\* member of a struct, at any depth) fails, the read of the outermost value
\* fails with that error, and value_from_str, response_from_str and
\* request_from_str return an error, never a value built in part or a list
\* of parameters cut short.
C21_ErrorPropagation == C21_NestedValues /\ C21_Envelopes /\ C21_FirstNested

(***************************************************************************)
(* request_to_string and response_to_string (src/src/lib.rs), and the      *)
(* state machine that hands them a method name and arguments               *)
(* (specification SpecEnvelope).                                           *)
(***************************************************************************)
\* writer.write_decl()
write_decl == <<Decl>>

\* the body of the loop over the arguments: one <param> per Value
RECURSIVE WriteParams(_)
WriteParams(args) ==
    IF args = <<>> THEN <<>>
    ELSE write_start_tag("param") \o transcode_value(Head(args)) \o write_end_tag("param")
            \o WriteParams(Tail(args))

\* a faulty request_to_string: <params> is left out when there is no argument
request_to_string_bare(name, args) ==
    write_decl \o write_start_tag("methodCall") \o write_tag("methodName", name)
        \o (IF args = <<>> THEN <<>>
            ELSE write_start_tag("params") \o WriteParams(args) \o write_end_tag("params"))
        \o write_end_tag("methodCall")
request_to_string(name, args) ==
    write_decl \o write_start_tag("methodCall") \o write_tag("methodName", name)
        \o write_start_tag("params") \o WriteParams(args) \o write_end_tag("params")
        \o write_end_tag("methodCall")

response_to_string(params) ==
    write_decl \o write_start_tag("methodResponse")
        \o write_start_tag("params") \o WriteParams(params) \o write_end_tag("params")
        \o write_end_tag("methodResponse")

ArgValues ==
    { Val("Int", Num(FALSE, <<1>>)), Val("String", <<"a", "<">>), Nil,
      Val("Array", <<Val("Int", Num(FALSE, <<1>>)), Nil>>),
      Val("Struct", MapInsert(EmptyMap, <<"a">>, Val("Bool", TRUE))) }

ArgLists ==
    { <<>> } \cup { <<x>> : x \in ArgValues } \cup { <<x, y>> : x \in ArgValues, y \in ArgValues }

MethodNames == { <<"m">>, <<"h", "i", " ", "u">>, <<"a", "&", "b">> }

InitEnvelope ==
    /\ \/ \E n \in MethodNames, a \in ArgLists : value = Call(n, a)
       \/ \E a \in ArgLists : value = Val("Params", a)
    /\ input = <<>>
    /\ target = TValue
    /\ out = <<>>
    /\ result = Idle
    /\ pc = "write"

RequestToString ==
    /\ pc = "write"
    /\ value.t = "Call"
    /\ out' = request_to_string(value.v.method_name, value.v.params)
    /\ pc' = "written"
    /\ UNCHANGED <<input, target, value, result>>

ResponseToString ==
    /\ pc = "write"
    /\ value.t = "Params"
    /\ out' = response_to_string(value.v)
    /\ pc' = "written"
    /\ UNCHANGED <<input, target, value, result>>

NextEnvelope == RequestToString \/ ResponseToString

SpecEnvelope == InitEnvelope /\ [][NextEnvelope]_vars

\* the text written, after its declaration
Envelope == Tail(out)

\* each <param> holds the one value tree of its argument, in order
ParamsAre(vals, args) ==
    /\ Len(vals) = Len(args)
    /\ \A i \in 1..Len(args) : IsValueDoc(vals[i]) /\ vals[i] = transcode_value(args[i])

\* C22: request_to_string(name, args) emits the declaration, then
\* <methodCall><methodName>NAME</methodName><params>, then for each argument
\* in order one <param> holding one <value> tree, then </params></methodCall>,
\* <params></params> being emitted also when there is no argument;
\* response_to_string does the same with <methodResponse><params> and no
\* methodName.
C22_EnvelopeWriting ==
    pc = "written" =>
        /\ out # <<>> /\ Head(out) = Decl
        /\ value.t = "Call" =>
              /\ IsRequestDoc(Envelope)
              /\ ChildElements(Inner(Envelope))[1]
                    = <<Start("methodName"), Text(Escape(value.v.method_name)), End("methodName")>>
              /\ ParamsAre(ParamValuesOf(Envelope, 1), value.v.params)
        /\ value.t = "Params" =>
              /\ IsResponseDoc(Envelope)
              /\ ParamsAre(ParamValuesOf(Envelope, 0), value.v)

C22_Witness ==
    /\ pc = "written" /\ value.t = "Call" /\ value.v.params = <<>>
    /\ Envelope = <<Start("methodCall"), Start("methodName"), Text(<<"m">>), End("methodName"),
                    Start("params"), End("params"), End("methodCall")>>

C22_WitnessResponse ==
    /\ pc = "written" /\ value.t = "Params" /\ Len(value.v) = 2 /\ value.v[1] # value.v[2]
    /\ IsResponseDoc(Envelope) /\ Len(ParamValuesOf(Envelope, 0)) = 2

\* the document after its declarations
Body == StripDecls(Tokens)

\* the text of the <methodName> element that is the first child
MethodNameOf(doc) ==
    IF Len(ChildElements(Inner(doc))[1]) = 3 THEN ChildElements(Inner(doc))[1][2].text ELSE <<>>

Reads(docs) == \A i \in 1..Len(docs) : value_from_str(docs[i], TValue).ok

\* the <param> children at the start of a run, each of one value that reads
RECURSIVE LeadingParams(_)
LeadingParams(run) ==
    IF /\ ChildElements(run) # <<>>
       /\ IsElement(ChildElements(run)[1], "param")
       /\ IsValueDoc(Inner(ChildElements(run)[1]))
       /\ value_from_str(Inner(ChildElements(run)[1]), TValue).ok
    THEN Len(ChildElements(run)[1])
            + LeadingParams(SubSeq(run, Len(ChildElements(run)[1]) + 1, Len(run)))
    ELSE 0

\* a token that is neither the start tag nor the end tag given, nor markup
\* the tokenizer fails on; the end of the input counts as such a token
IsOther(run, start, end) ==
    \/ run = <<>>
    \/ /\ Head(run) \notin {Start(start), End(end), Malformed}
       /\ ~(Head(run).k = "Text" /\ Trim(Head(run).text) = <<>>)

HasMethodName(doc) ==
    /\ doc # <<>> /\ Head(doc) = Start("methodCall")
    /\ ChildElements(Tail(doc)) # <<>>
    /\ IsElement(ChildElements(Tail(doc))[1], "methodName")
    /\ Len(ChildElements(Tail(doc))[1]) <= 3

\* what follows </methodName>
AfterMethodName(doc) == SubSeq(doc, 2 + Len(ChildElements(Tail(doc))[1]), Len(doc))

\* what follows the leading <param> children of <params>
AfterParams(doc) ==
    SubSeq(AfterMethodName(doc), 2 + LeadingParams(Tail(AfterMethodName(doc))),
           Len(AfterMethodName(doc)))

\* C23: request_from_str on <methodCall><methodName>M</methodName><params>
\* with k <param> children returns (M, vals), vals being the readings of the
\* values of the k params in the order of the document (k may be 0); it
\* fails with UnexpectedEvent when the first element is not methodCall,
\* when methodName is not the first child, when params does not follow
\* methodName at once, and when something else than <param> or </params>
\* stands inside params.
C23_RequestReading ==
    EntryIs("request") =>
        /\ IsRequestDoc(Body) /\ Reads(ParamValuesOf(Body, 1)) =>
              /\ result.ok
              /\ result.val =
                    Call(MethodNameOf(Body),
                         [i \in 1..Len(ParamValuesOf(Body, 1)) |->
                             value_from_str(ParamValuesOf(Body, 1)[i], TValue).val])
        /\ IsOther(Body, "methodCall", "") => Failed("UnexpectedEvent", "", "")
        /\ (Body # <<>> /\ Head(Body) = Start("methodCall")
                /\ IsOther(Tail(Body), "methodName", "")) =>
              Failed("UnexpectedEvent", "", "")
        /\ HasMethodName(Body) /\ IsOther(AfterMethodName(Body), "params", "") =>
              Failed("UnexpectedEvent", "", "")
        /\ (HasMethodName(Body) /\ AfterMethodName(Body) # <<>>
                /\ Head(AfterMethodName(Body)) = Start("params")
                /\ IsOther(AfterParams(Body), "param", "params")) =>
              Failed("UnexpectedEvent", "", "")

C23_Witness ==
    /\ EntryIs("request") /\ IsRequestDoc(Body)
    /\ Len(ParamValuesOf(Body, 1)) = 2
    /\ IsArrayDoc(ParamValuesOf(Body, 1)[1]) /\ ~IsArrayDoc(ParamValuesOf(Body, 1)[2])
    /\ result.ok /\ Len(result.val.v.params) = 2
    /\ result.val.v.params[1].t = "Array"

C23_WitnessBroken ==
    /\ EntryIs("request") /\ HasMethodName(Body)
    /\ AfterMethodName(Body) # <<>> /\ Head(AfterMethodName(Body)) = Start("params")
    /\ Len(AfterParams(Body)) > 1 /\ Head(AfterParams(Body)) = Start("value")
    /\ LeadingParams(Tail(AfterMethodName(Body))) > 0
    /\ Failed("UnexpectedEvent", "", "")

(***************************************************************************)
(* Documents that keep to, and that break, the protocols of the struct     *)
(* reader, the array reader and the value reader; the state machine of     *)
(* value_from_str over them (specification SpecProtocol).                  *)
(***************************************************************************)
NameOf(x) == Element("name", TextBody(x))

TextLeaf == Element("value", <<Text(<<"a">>)>>)

BadLeaf == Element("value", Element("boolean", <<Text(<<"2">>)>>))

\* what is not a start tag and no tokenizer error
StrayEvents == { <<Text(<<"x">>)>>, <<Comment>>, <<CData>> }

\* what can stand where a <member> is expected
StructItems ==
    { MemberOf(<<"a">>, GoodLeaf), MemberOf(<<"b">>, TextLeaf), MemberOf(<<"a">>, BadLeaf),
      MemberOf(<<>>, GoodLeaf),
      Element("member", GoodLeaf \o NameOf(<<"a">>)),
      Element("member", NameOf(<<"a">>)),
      Element("member", NameOf(<<"a">>) \o <<Text(<<"x">>)>> \o GoodLeaf),
      Element("member", NameOf(<<"a">>) \o Element("foo", <<>>)),
      Element("member", <<>>),
      Element("member", NameOf(<<"a">>) \o GoodLeaf \o BadLeaf \o <<Text(<<"x">>)>>),
      Element("member", NameOf(<<"a">>) \o <<Malformed>>),
      GoodLeaf, Element("foo", <<>>), <<Malformed>> }
        \cup StrayEvents

\* what can stand where a <value> of an array is expected
ArrayItems ==
    { GoodLeaf, TextLeaf, BadLeaf, <<Empty("value")>>,
      Element("foo", <<>>), Element("member", GoodLeaf), Element("data", GoodLeaf),
      <<Malformed>> }
        \cup StrayEvents

\* what can stand between <array> and </array>
ArrayBodies ==
    { <<>>, GoodLeaf, Element("foo", GoodLeaf), <<Malformed>>,
      Element("data", GoodLeaf) \o GoodLeaf \o <<Text(<<"x">>)>>,
      Element("data", GoodLeaf) \o Element("data", BadLeaf),
      Element("data", TextLeaf) \o Element("array", <<>>) }
        \cup StrayEvents

\* the value read first, and what may follow it before </value>
FirstItems ==
    { <<Text(<<"a">>)>>, Element("int", <<Text(<<"1">>)>>), Element("string", <<Text(<<"s">>)>>),
      <<Empty("nil")>>, Inner(ArrayOf(GoodLeaf)), Inner(StructOf(MemberOf(<<"a">>, GoodLeaf))) }

LaterItems ==
    { <<Text(<<"x">>)>>, Element("int", <<Text(<<"2">>)>>), Element("boolean", <<Text(<<"2">>)>>),
      Element("foo", <<>>), GoodLeaf, Element("value", GoodLeaf) \o TextLeaf,
      <<Comment>>, Inner(ArrayOf(BadLeaf)) }

StructDocs ==
    { StructOf(x) : x \in StructItems \cup {<<>>} }
        \cup { StructOf(x \o y) : x \in StructItems, y \in StructItems }
        \cup { ArrayOf(StructOf(x) \o GoodLeaf) : x \in StructItems }
        \cup { StructOf(MemberOf(<<"b">>, StructOf(x)) \o MemberOf(<<"a">>, GoodLeaf)) :
                  x \in StructItems }
        \cup Prefixes(StructOf(MemberOf(<<"a">>, GoodLeaf) \o MemberOf(<<"b">>, TextLeaf)))

ArrayDocs ==
    { ArrayOf(x) : x \in ArrayItems \cup {<<>>} }
        \cup { ArrayOf(x \o y) : x \in ArrayItems, y \in ArrayItems }
        \cup { Element("value", Element("array", x)) : x \in ArrayBodies }
        \cup { ArrayOf(Element("value", Element("array", x)) \o TextLeaf) : x \in ArrayBodies }
        \cup { StructOf(MemberOf(<<"a">>, ArrayOf(x)) \o MemberOf(<<"b">>, GoodLeaf)) :
                  x \in ArrayItems }
        \cup Prefixes(ArrayOf(GoodLeaf \o TextLeaf))

\* no two texts in a row: the tokenizer reports them as one
NoTextRun(doc) == \A i \in 1..(Len(doc) - 1) : ~(doc[i].k = "Text" /\ doc[i + 1].k = "Text")

CrowdedDocs ==
    { d \in { Element("value", x \o y) : x \in FirstItems, y \in LaterItems }
        \cup { ArrayOf(Element("value", x \o y) \o GoodLeaf) : x \in FirstItems, y \in LaterItems }
        \cup { Element("value", x \o y \o z) : x \in FirstItems, y \in LaterItems, z \in LaterItems }
        \cup { Element("value", x) \o y : x \in FirstItems, y \in LaterItems } :
      NoTextRun(d) }

\* what an Option is read from
OptionContents ==
    { <<>>, <<Empty("nil")>>, Element("nil", <<Text(<<"x">>)>>), <<Start("nil")>>,
      <<Text(<<"1">>)>>, <<Text(<<"a">>)>>, <<Malformed>>, <<Comment>>,
      Element("int", <<Text(<<"1">>)>>), Element("int", <<Text(<<"x">>)>>),
      Element("boolean", <<Text(<<"1">>)>>), Element("foo", <<>>),
      Element("int", <<Text(<<"1">>)>>) \o <<Empty("nil")>>,
      <<Text(<<"1">>), Empty("nil")>>,
      Inner(ArrayOf(GoodLeaf)) }

OptionDocs ==
    { Element("value", x) : x \in OptionContents }
        \cup { <<Start("value")>> \o x : x \in OptionContents }
        \cup { ArrayOf(Element("value", x) \o Element("value", y)) :
                  x \in OptionContents, y \in OptionContents }

OptionTargets ==
    { TOpt(TI32), TOpt(TBool), TOpt(TValue), TOpt(TTrace), TOpt(TOpt(TI32)),
      TVec(TOpt(TI32)), TVec(TOpt(TTrace)) }

ProtocolInputs ==
    ((StructDocs \cup ArrayDocs \cup CrowdedDocs) \X {TValue, TTrace})
        \cup (CrowdedDocs \X {TI32})
        \cup (OptionDocs \X OptionTargets)

InitProtocol ==
    /\ \E i \in ProtocolInputs : input = i[1] /\ target = i[2]
    /\ value = Val("Entry", "protocol")
    /\ out = <<>>
    /\ result = Idle
    /\ pc = "read"

NextProtocol == ValueFromStr

SpecProtocol == InitProtocol /\ [][NextProtocol]_vars

ProtocolDone == pc = "done" /\ value = Val("Entry", "protocol")

\* the tokens after the first tag inside the <value> the reader starts in:
\* the document's own <value>, or the first element of the array it holds
InFirstValue(tag) ==
    IF Len(Tokens) >= 5 /\ SubSeq(Tokens, 1, 5)
            = <<Start("value"), Start("array"), Start("data"), Start("value"), Start(tag)>>
    THEN SubSeq(Tokens, 6, Len(Tokens))
    ELSE IF Len(Tokens) >= 2 /\ SubSeq(Tokens, 1, 2) = <<Start("value"), Start(tag)>>
    THEN SubSeq(Tokens, 3, Len(Tokens))
    ELSE <<Malformed>>

InFirstStruct == InFirstValue("struct")

\* a <member> that opens with its <name> and a <value> that reads
IsGoodMember(m) ==
    /\ IsElement(m, "member")
    /\ Len(ChildElements(Inner(m))) >= 2
    /\ IsElement(ChildElements(Inner(m))[1], "name")
    /\ Len(ChildElements(Inner(m))[1]) <= 3
    /\ IsValueDoc(ChildElements(Inner(m))[2])
    /\ value_from_str(ChildElements(Inner(m))[2], target).ok

\* the members at the start of a run that are read, and what follows them
RECURSIVE LeadingMembers(_)
LeadingMembers(run) ==
    IF ChildElements(run) # <<>> /\ IsGoodMember(ChildElements(run)[1])
    THEN <<ChildElements(run)[1]>>
            \o LeadingMembers(SubSeq(run, Len(ChildElements(run)[1]) + 1, Len(run)))
    ELSE <<>>

AfterMembers == SubSeq(InFirstStruct, Len(Concat(LeadingMembers(InFirstStruct))) + 1, Len(InFirstStruct))

TopStruct == Len(Tokens) >= 2 /\ Tokens[2] = Start("struct")

\* the second token of a run is the start tag given
SecondIs(run, name) == Len(run) >= 2 /\ run[2] = Start(name)

\* C24: in a struct the reader takes one event per turn: </struct> ends the
\* map; a <member> must open with <name>, whose text is the key, followed by
\* a <value>, which the value reader reads before the rest of the member is
\* passed over; a member whose <value> stands before its <name>, or that
\* has no <value>, is an error; every other event at the top of the loop,
\* the end of the input included, is an UnexpectedEvent error.
C24_StructProtocol ==
    ProtocolDone /\ ReadsAnyValue /\ InFirstStruct # <<Malformed>> =>
        /\ (TopStruct /\ AfterMembers = <<End("struct"), End("value")>>) =>
              /\ result.ok
              /\ target = TTrace =>
                    result.val =
                        Val("visit_map",
                            [i \in 1..Len(LeadingMembers(InFirstStruct)) |->
                                <<MemberNameOf(LeadingMembers(InFirstStruct)[i]),
                                  value_from_str(MemberValueOf(LeadingMembers(InFirstStruct)[i]),
                                                 target).val>>])
        /\ (AfterMembers # <<>> /\ Head(AfterMembers) = Start("member")
                /\ (Len(AfterMembers) < 2 \/ AfterMembers[2] \notin {Start("name"), Malformed})) =>
              ~result.ok
        /\ (SecondIs(AfterMembers, "name") /\ Head(AfterMembers) = Start("member")
                /\ ChildElements(Tail(AfterMembers)) # <<>>
                /\ Len(ChildElements(Tail(AfterMembers))[1]) <= 3
                /\ IsOther(SubSeq(AfterMembers, 2 + Len(ChildElements(Tail(AfterMembers))[1]),
                                  Len(AfterMembers)), "value", "")) =>
              ~result.ok
        /\ IsOther(AfterMembers, "member", "struct") =>
              Failed("UnexpectedEvent", "", "map key read")

\* two members, the first with more after its value, are read into a map
C24_Witness ==
    /\ ProtocolDone /\ target = TTrace /\ TopStruct
    /\ Len(LeadingMembers(InFirstStruct)) = 2
    /\ Len(ChildElements(Inner(LeadingMembers(InFirstStruct)[1]))) > 2
    /\ AfterMembers = <<End("struct"), End("value")>>
    /\ result.ok /\ Len(result.val.v) = 2

\* a member whose <value> stands before its <name>
C24_WitnessValueFirst ==
    /\ ProtocolDone /\ target = TValue
    /\ Len(LeadingMembers(InFirstStruct)) = 1
    /\ SecondIs(AfterMembers, "value") /\ Head(AfterMembers) = Start("member")
    /\ ~result.ok

InFirstArray == InFirstValue("array")

\* the <value> children at the start of a run that are read
RECURSIVE LeadingValues(_)
LeadingValues(run) ==
    IF /\ ChildElements(run) # <<>>
       /\ IsValueDoc(ChildElements(run)[1])
       /\ value_from_str(ChildElements(run)[1], target).ok
    THEN <<ChildElements(run)[1]>>
            \o LeadingValues(SubSeq(run, Len(ChildElements(run)[1]) + 1, Len(run)))
    ELSE <<>>

HasData == InFirstArray # <<>> /\ Head(InFirstArray) = Start("data")

AfterValues ==
    SubSeq(InFirstArray, 2 + Len(Concat(LeadingValues(Tail(InFirstArray)))), Len(InFirstArray))

\* the array the reader starts in is the document's own value
TopArray ==
    /\ IsValueDoc(Tokens)
    /\ IsElement(Inner(Tokens), "array")
    /\ InFirstArray = SubSeq(Tokens, 3, Len(Tokens))

\* C25: after <array> the next event must be the start tag <data>, else the
\* read fails with UnexpectedTag or UnexpectedEvent for data; then every
\* <value> start tag yields one element, </data> ends the sequence and the
\* reader goes on through the </array> around it, and any other event (a
\* text, another start tag, the end of the input) is an UnexpectedEvent
\* error for "one of value".
C25_ArrayProtocol ==
    ProtocolDone /\ ReadsAnyValue /\ InFirstArray # <<Malformed>> =>
        /\ (InFirstArray # <<>> /\ Head(InFirstArray).k = "Start"
                /\ Head(InFirstArray).name # "data") =>
              Failed("UnexpectedTag", Head(InFirstArray).name, "data")
        /\ (InFirstArray = <<>> \/ Head(InFirstArray).k \notin {"Start", "Malformed"}) =>
              Failed("UnexpectedEvent", "", "data")
        /\ (HasData /\ TopArray /\ AfterValues # <<>> /\ Head(AfterValues) = End("data")) =>
              /\ result.ok
              /\ visit_seq(Tokens, 3, target).pos = Len(Tokens) - 1
              /\ target = TTrace =>
                    result.val =
                        Val("visit_seq",
                            [i \in 1..Len(LeadingValues(Tail(InFirstArray))) |->
                                value_from_str(LeadingValues(Tail(InFirstArray))[i], target).val])
        /\ (HasData /\ IsOther(AfterValues, "value", "data")) =>
              Failed("UnexpectedEvent", "", "one of value")

\* two elements, and more between </data> and </array>
C25_Witness ==
    /\ ProtocolDone /\ target = TTrace /\ HasData /\ TopArray
    /\ Len(LeadingValues(Tail(InFirstArray))) = 1
    /\ Len(AfterValues) > 3 /\ Head(AfterValues) = End("data")
    /\ result.ok /\ Len(result.val.v) = 1

\* a start tag other than <value> after an element
C25_WitnessOther ==
    /\ ProtocolDone /\ target = TValue /\ HasData
    /\ Len(LeadingValues(Tail(InFirstArray))) = 1
    /\ AfterValues # <<>> /\ Head(AfterValues) = Start("foo")
    /\ Failed("UnexpectedEvent", "", "one of value")

\* the input ends where an element is expected
C25_WitnessEof ==
    /\ ProtocolDone /\ HasData
    /\ Len(LeadingValues(Tail(InFirstArray))) = 1
    /\ AfterValues = <<>>
    /\ Failed("UnexpectedEvent", "", "one of value")

\* the target type without its Options, and the value read into it with the
\* Some of every Option put back
RECURSIVE WithoutOption(_)
WithoutOption(T) ==
    CASE T.k = "Opt" -> WithoutOption(T.of[1])
      [] T.k = "Vec" -> TVec(WithoutOption(T.of[1]))
      [] OTHER -> T

RECURSIVE InSome(_, _)
InSome(T, x) ==
    CASE T.k = "Opt" -> Val("Some", InSome(T.of[1], x))
      [] T.k = "Vec" -> Val("Seq", [i \in 1..Len(x.v) |-> InSome(T.of[1], x.v[i])])
      [] OTHER -> x

HasOption(T) == WithoutOption(T) # T

\* no <value> of the document opens with <nil>
NoNilFirst ==
    \A i \in 1..(Len(Tokens) - 1) : ~(Tokens[i] = Start("value") /\ Tokens[i + 1] = Start("nil"))

\* C26: the look ahead of deserialize_option changes nothing: when the next
\* event is not the start tag <nil> (a text, another start tag, </value>,
\* the end of the input, a tokenizer error) the result is some(x), x being
\* what deserialize_any makes of the cursor as it stood before the look
\* ahead, its errors and the cursor it leaves included.
C26_PeekLeavesCursor ==
    ProtocolDone /\ HasOption(target) /\ NoNilFirst =>
        /\ result.ok = value_from_str(input, WithoutOption(target)).ok
        /\ result.pos = value_from_str(input, WithoutOption(target)).pos
        /\ result.err = value_from_str(input, WithoutOption(target)).err
        /\ result.ok =>
              result.val = InSome(target, value_from_str(input, WithoutOption(target)).val)

\* Some(1) read from <value><int>1</int></value>
C26_Witness ==
    /\ ProtocolDone /\ target = TOpt(TI32) /\ NoNilFirst
    /\ Tokens = Element("value", Element("int", <<Text(<<"1">>)>>))
    /\ result.ok /\ result.val.t = "Some" /\ result.pos = Len(Tokens)

\* the input ends after <value>: the error is that of deserialize_any
C26_WitnessEof ==
    /\ ProtocolDone /\ target = TOpt(TTrace)
    /\ Tokens = <<Start("value")>>
    /\ Failed("UnexpectedEOF", "", ExpectedValueTags)

\* an array of two Options, none of them <nil>
C26_WitnessVec ==
    /\ ProtocolDone /\ target = TVec(TOpt(TI32)) /\ NoNilFirst
    /\ result.ok /\ Len(result.val.v) = 2
    /\ result.val.v[1].t = "Some" /\ result.val.v[2].t = "Some"

\* the first content item of a <value> element: a text, or an element
FirstItemOf(el) ==
    IF Len(el) < 3 THEN <<>>
    ELSE IF el[2].k = "Text" THEN <<el[2]>>
    ELSE IF ChildElements(Tail(el)) # <<>> THEN ChildElements(Tail(el))[1]
    ELSE <<>>

\* the <value> element with nothing but its first content item
FirstOnly(el) == Element("value", FirstItemOf(el))

\* the <value> element the document opens with
FirstValue == SubSeq(Tokens, 1, MatchingEnd(Tokens, 1))

\* a <value> element whose first item is a text or a known tag, reads when
\* it stands alone, and is followed by more before </value>
IsCrowded(el) ==
    /\ IsValueDoc(el)
    /\ FirstItemOf(el) # <<>>
    /\ Head(FirstItemOf(el)).k = "Start" => Head(FirstItemOf(el)).name \in KnownValueTags
    /\ Len(el) > Len(FirstItemOf(el)) + 2
    /\ \A i \in (Len(FirstItemOf(el)) + 2)..(Len(el) - 1) : el[i].k \in {"Start", "End", "Text"}
    /\ value_from_str(FirstOnly(el), target).ok

\* C27: a <value> with more than one content item is not refused: when the
\* first item is a text or a known tag and more tags or text follow before
\* </value>, only the first item is delivered, the rest is passed over
\* without an error and the cursor ends after the </value> that matches,
\* nested <value> tags in the part passed over being counted.
C27_FirstItemOnly ==
    ProtocolDone /\ target \in {TValue, TTrace, TI32} =>
        /\ (Tokens # <<>> /\ Head(Tokens) = Start("value") /\ IsCrowded(FirstValue)) =>
              /\ result.ok
              /\ result.val = value_from_str(FirstOnly(FirstValue), target).val
              /\ result.pos = MatchingEnd(Tokens, 1)
        /\ (IsArrayDoc(Tokens) /\ ArrayChildren(Tokens) # <<>>
                /\ IsCrowded(ArrayChildren(Tokens)[1])
                /\ target # TI32) =>
              /\ result.ok
              /\ result.val =
                    value_from_str(ArrayOf(FirstOnly(ArrayChildren(Tokens)[1])
                                             \o Concat(Tail(ArrayChildren(Tokens)))),
                                   target).val

\* <value><int>1</int> followed by a nested <value> and a text
C27_Witness ==
    /\ ProtocolDone /\ target = TI32
    /\ Tokens # <<>> /\ Head(Tokens) = Start("value") /\ IsCrowded(FirstValue)
    /\ FirstItemOf(FirstValue) = Element("int", <<Text(<<"1">>)>>)
    /\ Len(FirstValue) > 12 /\ FirstValue[6] = Start("value") /\ FirstValue[7] = Start("value")
    /\ result.ok /\ result.pos = Len(Tokens)

\* a text followed by a tag that would not read
C27_WitnessText ==
    /\ ProtocolDone /\ target = TValue
    /\ Tokens # <<>> /\ Head(Tokens) = Start("value") /\ IsCrowded(FirstValue)
    /\ FirstItemOf(FirstValue) = <<Text(<<"a">>)>>
    /\ FirstValue[3] = Start("boolean")
    /\ result.ok /\ result.val = Val("String", <<"a">>)

(***************************************************************************)
(* The loops of the reader taken one turn at a time (specifications        *)
(* SpecLoops and SpecLoopsLive): a loop of one of five kinds is started    *)
(* at a cursor of a document; each turn either ends the loop with a value  *)
(* or an error, or leaves the cursor where the next turn starts.  A value  *)
(* nested in a turn is read within the turn: the loops it runs are the     *)
(* same loops, started at its cursor.  The record of a turn is             *)
(* Step(r, ended).                                                         *)
(***************************************************************************)
Ended(k) == IF k.ok THEN Ok(Nil, k.pos) ELSE Fail(k.err, k.pos)

\* variant: a declaration is met again and again
ExpectTurnOnStuck(doc, p, end, e) ==
    IF e.ev.k = "Decl" THEN Step(Ok(Nil, p), FALSE) ELSE Step(ExpectTagOn(doc, end, e), TRUE)

\* expect_tag: Ok(Event::Decl(_)) => continue, every other arm leaves the loop
ExpectTurnOn(doc, p, end, e) ==
    IF e.ev.k = "Decl" THEN Step(Ok(Nil, e.pos), FALSE) ELSE Step(ExpectTagOn(doc, end, e), TRUE)

\* the loops of response_from_str and request_from_str that look for the
\* envelope: Ok(Event::Decl(_)) => continue
EnvelopeTurnOn(doc, name, e) ==
    IF e.ev.k = "Decl" THEN Step(Ok(Nil, e.pos), FALSE) ELSE Step(FindEnvelopeOn(doc, name, e), TRUE)

\* the loop of request_from_str over <params>: a <param> whose value is
\* read and whose end is reached continues
ParamsTurnRead(r) == Step(r, ~r.ok)

ParamsTurnOn(doc, e) ==
    IF e.ev.k = "Start" /\ e.ev.name = "param"
    THEN ParamsTurnRead(SkipTo(doc, ReadValue(doc, TValue, Ok(Nil, e.pos)), "param"))
    ELSE Step(ParamsLoopOn(doc, <<>>, <<>>, e), TRUE)

\* a visit_map loop: next_key_seed, then next_value_seed unless the map
\* ended or the key failed
StructTurnValue(x) == Step(x, ~x.ok)

StructTurnOn(doc, T, k) ==
    IF ~k.ok \/ k.none THEN Step(Ended(k), TRUE)
    ELSE StructTurnValue(next_value_seed(doc, k.pos, T))

\* a visit_seq loop: next_element_seed until it fails or returns None
ArrayTurnOn(r) == Step(Ended(r), ~r.ok \/ r.none)

LoopKinds == {"expect_tag", "envelope", "params", "struct", "array"}

LoopDocs ==
    { <<Decl, Decl>> \o StructOf(MemberOf(<<"a">>, GoodLeaf)
                                   \o MemberOf(<<"b">>, ArrayOf(GoodLeaf \o TextLeaf))),
      ArrayOf(GoodLeaf \o StructOf(MemberOf(<<"a">>, BadLeaf)) \o TextLeaf),
      <<Decl>> \o RequestOf(<<"m">>, ParamOf(GoodLeaf) \o ParamOf(ArrayOf(GoodLeaf))),
      <<Decl, Decl, Decl, Comment, Decl>>,
      <<Decl, Malformed, Decl>>,
      <<Decl, Decl>>,
      SubSeq(StructOf(MemberOf(<<"a">>, GoodLeaf) \o MemberOf(<<"b">>, TextLeaf)), 1, 12),
      SubSeq(ArrayOf(GoodLeaf \o TextLeaf), 1, 11),
      SubSeq(RequestOf(<<"m">>, ParamOf(GoodLeaf) \o ParamOf(TextLeaf)), 1, 13) }

Cursor == result.pos

\* the turn a loop of the kind given takes at cursor p
TurnAt(kind, doc, p, T) ==
    CASE kind = "expect_tag" -> ExpectTurnOn(doc, p, "value", read_event(doc, p))
      [] kind = "envelope"   -> EnvelopeTurnOn(doc, "methodCall", read_event(doc, p))
      [] kind = "params"     -> ParamsTurnOn(doc, read_event(doc, p))
      [] kind = "struct"     -> StructTurnOn(doc, T, next_key_seed(doc, p))
      [] kind = "array"      -> ArrayTurnOn(next_element_seed(doc, p, T))

\* A loop of one kind is started at one cursor of a document.  The reader
\* is deterministic: out holds, for every cursor of the document, the turn
\* the loop takes there.
InitLoops ==
    /\ input \in LoopDocs
    /\ target = TValue
    /\ \E k \in LoopKinds, p \in 0..Len(Expand(input)) :
          /\ value = Val(k, p)
          /\ result = Ok(Nil, p)
          /\ out = [i \in 1..(Len(Expand(input)) + 1) |->
                        TurnAt(k, Expand(input), i - 1, TValue)]
    /\ pc = "loop"

\* one turn of the loop: its result when it ended, the cursor of the next
\* turn when it continues
Turn ==
    /\ pc = "loop"
    /\ result' = [ok  |-> out[Cursor + 1].ok,  val |-> out[Cursor + 1].val,
                  err |-> out[Cursor + 1].err, pos |-> out[Cursor + 1].pos]
    /\ pc' = IF out[Cursor + 1].none THEN "done" ELSE "loop"
    /\ UNCHANGED <<input, target, value, out>>

NextLoops == Turn

SpecLoops == InitLoops /\ [][NextLoops]_vars

\* the reader is a sequential program: a loop that can take a turn takes it
SpecLoopsLive == SpecLoops /\ WF_vars(NextLoops)

\* every turn after which the loop continues has consumed an event
TurnsConsume == [][pc' = "loop" => result'.pos > result.pos]_vars

\* at the end of the input no loop continues
EofEndsLoops == [][result.pos >= Len(Tokens) => pc' = "done"]_vars

\* C28: on every finite stream of events every loop of the reader (those of
\* expect_tag, of the envelopes, of <params>, of structs and of arrays)
\* returns a value or an error after finitely many turns: a turn after
\* which the loop continues has consumed at least one event, and at the end
\* of the input no loop continues.
C28_Termination ==
    /\ TurnsConsume
    /\ EofEndsLoops
    /\ <>(pc = "done")

\* a struct loop that went on after its first member
C28_Witness ==
    /\ pc = "loop" /\ value.t = "struct"
    /\ result.pos > value.v + 5
    /\ result.pos < Len(Tokens)

\* a loop that met the end of the input after a turn
C28_WitnessEof ==
    /\ pc = "done" /\ value.t = "expect_tag"
    /\ value.v < Len(Tokens) /\ result.pos = Len(Tokens)
    /\ ~result.ok

\* C29: the two write paths agree: value_to_string(x) writes the text that
\* writing to_value(x) writes, and the one accepts x exactly when the other
\* does; unit structs, unsigned integers of 32 and 64 bits, chars and maps
\* whose keys are no strings are included.
C29_WritePathsAgree ==
    pc = "written" =>
        /\ result.ok = to_value(value).ok
        /\ (result.ok /\ to_value(value).ok) => out = transcode_value(to_value(value).val)

ResponseParams == ParamValuesOf(Body, 0)

\* C30: response_from_str decodes the first <param> of <params> only: its
\* result is the reading of that param's value whatever params follow;
\* these are passed over undecoded, so that a value in them that would not
\* read (<boolean>2</boolean>) is no error; a <params> without any <param>
\* is an error.
C30_FirstParamOnly ==
    EntryIs("respond") /\ IsResponseDoc(Body) =>
        /\ ResponseParams = <<>> => ~result.ok
        /\ ResponseParams # <<>> =>
              /\ result.ok = value_from_str(ResponseParams[1], target).ok
              /\ result.val = value_from_str(ResponseParams[1], target).val
              /\ result.err = value_from_str(ResponseParams[1], target).err

\* the second param holds <boolean>2</boolean>
C30_Witness ==
    /\ EntryIs("respond") /\ IsResponseDoc(Body)
    /\ Len(ResponseParams) = 2
    /\ ResponseParams[2] = Element("value", Element("boolean", <<Text(<<"2">>)>>))
    /\ ~value_from_str(ResponseParams[2], target).ok
    /\ result.ok

\* <params></params>
C30_WitnessNone ==
    /\ EntryIs("respond") /\ IsResponseDoc(Body)
    /\ ResponseParams = <<>>
    /\ Failed("UnexpectedEvent", "", "param")
====
